---------------------------- MODULE Spec2Model ----------------------------
(***************************************************************************)
(* Recurrence-rule evaluation of hijri-rrule over the Hijri calendar.      *)
(*                                                                         *)
(* The module models the tabular calendar backend, the date arithmetic,    *)
(* the candidate generator `iterate` (src/core/iterator.ts) as a coroutine *)
(* that is resumed one step at a time, and the enumeration calls of        *)
(* HijriRRule (allHijri, betweenHijri, afterHijri, beforeHijri) that pull  *)
(* dates out of it.  Spec follows allHijri over a broad family of rules,   *)
(* SpecQuery the queries (and getBetween of the iterator module) over a    *)
(* narrower one; each behaviour follows one call on a fresh rule object.   *)
(*                                                                         *)
(* Calendar: under Spec and SpecQuery every rule is built with calendar    *)
(* 'islamic-tbla' and the process-wide default calendar is 'islamic-tbla'  *)
(* as well (the set-up of test/unit/rrule/hijri-rrule.test.ts), so every   *)
(* getMonthLength call of the code, with or without its calendar argument, *)
(* is answered by the tabular provider.  SpecCalendar follows direct calls *)
(* of the calendar, conversion and date-math functions; there the          *)
(* process-wide configuration starts at its default ('islamic-umalqura')   *)
(* and setCalendarConfig may change it, and the answers of the host's      *)
(* Intl.DateTimeFormat are an unknown of the environment.                  *)
(*                                                                         *)
(* Dates are records [year, month, day, hour].  minute and second are      *)
(* carried opaquely by the code and never change a result; hour is kept    *)
(* because hijriToJulianDay adds (hour - 12) / 24 to the day number, and   *)
(* 0 and 12 stand for the two halves of the day.  Julian day numbers are   *)
(* held in units of 1/24 day so that they stay integers.                   *)
(***************************************************************************)
EXTENDS Integers, Sequences, FiniteSets, TLC

(***************************************************************************)
(* Optional values: `undefined` and a present value.                       *)
(***************************************************************************)
None == [some |-> FALSE, v |-> <<>>]

Some(x) == [some |-> TRUE, v |-> x]

\* `list && list.length > 0`
NonEmpty(opt) == opt.some /\ Len(opt.v) > 0

Min(a, b) == IF a < b THEN a ELSE b

Last(s) == s[Len(s)]

Front(s) == SubSeq(s, 1, Len(s) - 1)

Range(s) == {s[i] : i \in 1..Len(s)}

(***************************************************************************)
(* constants/calendar.ts                                                   *)
(***************************************************************************)
LUNAR_CYCLE_YEARS == 30

LUNAR_CYCLE_DAYS == 10631

LEAP_YEARS_IN_CYCLE == {2, 5, 7, 10, 13, 16, 18, 21, 24, 26, 29}

COMMON_YEAR_DAYS == 354

LEAP_YEAR_DAYS == 355

MONTH_DAYS == <<30, 29, 30, 29, 30, 29, 30, 29, 30, 29, 30, 29>>

DAYS_BEFORE_MONTH == <<0, 30, 59, 89, 118, 147, 177, 206, 236, 265, 295, 325>>

\* HIJRI_EPOCH_JD = 1948439.5, in units of 1/24 day
HIJRI_EPOCH_JD == 24 * 1948439 + 12

(***************************************************************************)
(* types/frequency.ts, types/options.ts, types/weekday.ts                  *)
(***************************************************************************)
YEARLY == 0

MONTHLY == 1

WEEKLY == 2

DAILY == 3

HOURLY == 4

OMIT == "omit"

FORWARD == "forward"

BACKWARD == "backward"

(***************************************************************************)
(* The environment and the process-wide configuration                      *)
(***************************************************************************)
VARIABLES
  globalConfig,  \* calendar/config.ts: the process-wide calendar configuration
  host           \* what Intl.DateTimeFormat('en-u-ca-islamic-umalqura') answers

\* calendar/config.ts
defaultConfig == [defaultCalendar |-> "islamic-umalqura", useIntl |-> TRUE]

\* the configurations setCalendarConfig is called with
Configs ==
  {defaultConfig,
   [defaultCalendar |-> "islamic-umalqura", useIntl |-> FALSE],
   [defaultCalendar |-> "islamic-tbla", useIntl |-> TRUE]}

(***************************************************************************)
(* TabularCalendarProvider                                                 *)
(***************************************************************************)
\* the position counted from 0: (year - 1) % 30 looked up in the 1-based list
Tabular_isLeapYear_zeroBased(year) ==
  ((year - 1) % LUNAR_CYCLE_YEARS) \in LEAP_YEARS_IN_CYCLE

Tabular_isLeapYear(year) ==
  LET yearInCycle == year % LUNAR_CYCLE_YEARS
  IN  (IF yearInCycle <= 0 THEN yearInCycle + LUNAR_CYCLE_YEARS ELSE yearInCycle)
        \in LEAP_YEARS_IN_CYCLE

\* the leap day left out of month 12
Tabular_getMonthLength_noLeapDay(year, month) == MONTH_DAYS[month]

Tabular_getMonthLength(year, month) ==
  IF month = 12 /\ Tabular_isLeapYear(year) THEN 30 ELSE MONTH_DAYS[month]

Tabular_getYearLength(year) ==
  IF Tabular_isLeapYear(year) THEN LEAP_YEAR_DAYS ELSE COMMON_YEAR_DAYS

(***************************************************************************)
(* IntlCalendarProvider.  The Umm al-Qura month lengths are data of the    *)
(* host: host.table holds them for the years the host has observed data    *)
(* for (a function from the year to the twelve lengths), and outside that  *)
(* range the host computes the arithmetic calendar.  host.umalqura tells   *)
(* whether the host resolves the calendar at all.                          *)
(***************************************************************************)
\* the years of the host's table in this model
HostYears == {1443}

\* twelve month lengths of 29 or 30 days that make a year of 354 or 355 days
HostYearShapes ==
  {MONTH_DAYS,
   <<30, 29, 30, 29, 30, 29, 30, 29, 30, 29, 30, 30>>,
   <<30, 30, 30, 29, 30, 29, 30, 29, 30, 29, 30, 29>>}

Hosts ==
  {[umalqura |-> FALSE, table |-> [y \in HostYears |-> MONTH_DAYS]]}
    \cup {[umalqura |-> TRUE, table |-> t] : t \in [HostYears -> HostYearShapes]}

isIntlUmalquraSupported == host.umalqura

\* isValidDate(year, month, 30) ? 30 : 29, the probe answered by the host
Intl_getMonthLength(year, month) ==
  IF year \in DOMAIN host.table THEN host.table[year][month]
  ELSE Tabular_getMonthLength(year, month)

Intl_isLeapYear(year) == Intl_getMonthLength(year, 12) = 30

Intl_getYearLength(year) ==
  IF Intl_isLeapYear(year) THEN 355 ELSE 354

(***************************************************************************)
(* providers/index.ts and hijri-calendar.ts: the functions called without  *)
(* a calendar argument ask the provider of the process-wide default        *)
(***************************************************************************)
getCalendarProvider(type) ==
  IF type = "islamic-tbla" THEN "tabular"
  ELSE IF globalConfig.useIntl /\ isIntlUmalquraSupported THEN "intl"
  ELSE "tabular"

isLeapYear(year) ==
  IF getCalendarProvider(globalConfig.defaultCalendar) = "intl"
    THEN Intl_isLeapYear(year)
    ELSE Tabular_isLeapYear(year)

getMonthLength(year, month) ==
  IF getCalendarProvider(globalConfig.defaultCalendar) = "intl"
    THEN Intl_getMonthLength(year, month)
    ELSE Tabular_getMonthLength(year, month)

getYearLength(year) ==
  IF getCalendarProvider(globalConfig.defaultCalendar) = "intl"
    THEN Intl_getYearLength(year)
    ELSE Tabular_getYearLength(year)

\* hijri-calendar.ts: the table of a common year, whatever the year
\* the same three functions called with a rule's calendar
getMonthLengthIn(year, month, calendar) ==
  IF getCalendarProvider(calendar) = "intl"
    THEN Intl_getMonthLength(year, month)
    ELSE Tabular_getMonthLength(year, month)

getYearLengthIn(year, calendar) ==
  IF getCalendarProvider(calendar) = "intl"
    THEN Intl_getYearLength(year)
    ELSE Tabular_getYearLength(year)

getDaysBeforeMonth(year, month) == DAYS_BEFORE_MONTH[month]

getDayOfYear(year, month, day) == getDaysBeforeMonth(year, month) + day

isValidHijriDate(year, month, day) ==
  /\ year >= 1
  /\ month >= 1 /\ month <= 12
  /\ day >= 1
  /\ day <= getMonthLength(year, month)

(***************************************************************************)
(* HijriDate: the value type.  Equality and ordering read year, month and  *)
(* day only.                                                               *)
(***************************************************************************)
HijriDate(year, month, day, hour) ==
  [year |-> year, month |-> month, day |-> day, hour |-> hour]

equals(a, b) == a.year = b.year /\ a.month = b.month /\ a.day = b.day

isBefore(a, b) ==
  IF a.year # b.year THEN a.year < b.year
  ELSE IF a.month # b.month THEN a.month < b.month
  ELSE a.day < b.day

isAfter(a, b) ==
  IF a.year # b.year THEN a.year > b.year
  ELSE IF a.month # b.month THEN a.month > b.month
  ELSE a.day > b.day

isOnOrBefore(a, b) == equals(a, b) \/ isBefore(a, b)

isOnOrAfter(a, b) == equals(a, b) \/ isAfter(a, b)

compare(a, b) ==
  IF a.year # b.year THEN a.year - b.year
  ELSE IF a.month # b.month THEN a.month - b.month
  ELSE a.day - b.day

(***************************************************************************)
(* hijri-converter.ts: lunar date <-> Julian day number                    *)
(***************************************************************************)
RECURSIVE DaysInCycleYears(_, _)
\* for (y = 1; y < yearsInCycle; y++) days += leap ? 355 : 354
DaysInCycleYears(y, yearsInCycle) ==
  IF y >= yearsInCycle THEN 0
  ELSE (IF y \in LEAP_YEARS_IN_CYCLE THEN LEAP_YEAR_DAYS ELSE COMMON_YEAR_DAYS)
         + DaysInCycleYears(y + 1, yearsInCycle)

RECURSIVE DaysInMonths(_, _, _)
\* for (m = 1; m < month; m++) days += getMonthLength(year, m)
DaysInMonths(year, m, month) ==
  IF m >= month THEN 0
  ELSE getMonthLength(year, m) + DaysInMonths(year, m + 1, month)

hijriToJulianDay(date) ==
  LET cycles       == (date.year - 1) \div LUNAR_CYCLE_YEARS
      yearsInCycle == ((date.year - 1) % LUNAR_CYCLE_YEARS) + 1
      days         == cycles * LUNAR_CYCLE_DAYS
                        + DaysInCycleYears(1, yearsInCycle)
                        + DaysInMonths(date.year, 1, date.month)
                        + (date.day - 1)
  IN  HIJRI_EPOCH_JD + 24 * days + (date.hour - 12)

RECURSIVE ScanYears(_, _)
\* the year loop of julianDayToHijri: the year within the cycle and the days left
ScanYears(y, remainingDays) ==
  LET yearLength == IF y \in LEAP_YEARS_IN_CYCLE THEN LEAP_YEAR_DAYS
                    ELSE COMMON_YEAR_DAYS
  IN  IF remainingDays < yearLength
        THEN [add |-> y, rem |-> remainingDays]
      ELSE IF y = LUNAR_CYCLE_YEARS
        THEN [add |-> LUNAR_CYCLE_YEARS, rem |-> 0]
      ELSE ScanYears(y + 1, remainingDays - yearLength)

RECURSIVE ScanMonths(_, _, _)
\* the month loop of julianDayToHijri
ScanMonths(year, m, remainingDays) ==
  LET monthLength == getMonthLength(year, m)
  IN  IF remainingDays < monthLength
        THEN [month |-> m, rem |-> remainingDays]
      ELSE IF m = 12
        THEN [month |-> 12, rem |-> remainingDays - monthLength]
      ELSE ScanMonths(year, m + 1, remainingDays - monthLength)

\* the time of day of the result is left out: addDays overwrites it, and the
\* round trip is read for its year, month and day
julianDayToHijri(jdn) ==
  LET daysSinceEpoch == (jdn - HIJRI_EPOCH_JD + 12) \div 24
      cycles         == daysSinceEpoch \div LUNAR_CYCLE_DAYS
      ys             == ScanYears(1, daysSinceEpoch % LUNAR_CYCLE_DAYS)
      year           == cycles * LUNAR_CYCLE_YEARS + ys.add
      ms             == ScanMonths(year, 1, ys.rem)
  IN  [year |-> year, month |-> ms.month, day |-> ms.rem + 1]

hijriDayOfWeek(date) ==
  LET jdnMod7 == ((hijriToJulianDay(date) + 12) \div 24) % 7
  IN  (jdnMod7 + 2) % 7

(***************************************************************************)
(* hijri-converter.ts: Gregorian date <-> Julian day number.  A JavaScript *)
(* Date is a record [year, month, day, hour, minute, second] of its UTC    *)
(* fields.  A day number with a time of day is the pair [jdn, sub]: jdn in *)
(* units of 1/24 day as above and sub the seconds past the hour, so that   *)
(* the number is jdn / 24 + sub / 86400.  The decimal constants of the     *)
(* algorithm are scaled to integers: 1867216.25 and 36524.25 by 100,       *)
(* 122.1 and 365.25 by 100, 30.6001 by 10000.                              *)
(***************************************************************************)
GregorianDate(year, month, day, hour, minute, second) ==
  [year |-> year, month |-> month, day |-> day, hour |-> hour,
   minute |-> minute, second |-> second]

gregorianToJulianDay(date) ==
  LET a   == (14 - date.month) \div 12
      y   == date.year + 4800 - a
      m   == date.month + 12 * a - 3
      jdn == date.day + ((153 * m + 2) \div 5) + 365 * y + (y \div 4)
               - (y \div 100) + (y \div 400) - 32045
  IN  [jdn |-> 24 * jdn + (date.hour - 12),
       sub |-> 60 * date.minute + date.second]

\* the year, month and day of the day number z, an integer
CivilFromDayNumber(z) ==
  LET alpha == (100 * z - 186721625) \div 3652425
      a     == IF z >= 2299161 THEN z + 1 + alpha - (alpha \div 4) ELSE z
      b     == a + 1524
      c     == (100 * b - 12210) \div 36525
      d     == (36525 * c) \div 100
      e     == (10000 * (b - d)) \div 306001
      day   == b - d - ((306001 * e) \div 10000)
      month == IF e < 14 THEN e - 1 ELSE e - 13
      year  == IF month > 2 THEN c - 4716 ELSE c - 4715
  IN  [year |-> year, month |-> month, day |-> day]

julianDayToGregorian(j) ==
  LET z            == (j.jdn + 12) \div 24
      ymd          == CivilFromDayNumber(z)
      \* f = jdn + 0.5 - z, in seconds
      totalSeconds == ((j.jdn + 12) % 24) * 3600 + j.sub
  IN  GregorianDate(ymd.year, ymd.month, ymd.day,
                    ((totalSeconds \div 3600) + 12) % 24,
                    (totalSeconds % 3600) \div 60, totalSeconds % 60)

(***************************************************************************)
(* TabularCalendarProvider: its private conversions, which count with the  *)
(* provider's own month lengths and carry no time of day                   *)
(***************************************************************************)
RECURSIVE Tabular_DaysInMonths(_, _, _)
\* for (m = 1; m < month; m++) days += this.getMonthLength(year, m)
Tabular_DaysInMonths(year, m, month) ==
  IF m >= month THEN 0
  ELSE Tabular_getMonthLength(year, m) + Tabular_DaysInMonths(year, m + 1, month)

Tabular_hijriToJulianDay(year, month, day) ==
  LET cycles       == (year - 1) \div LUNAR_CYCLE_YEARS
      yearsInCycle == ((year - 1) % LUNAR_CYCLE_YEARS) + 1
      days         == cycles * LUNAR_CYCLE_DAYS
                        + DaysInCycleYears(1, yearsInCycle)
                        + Tabular_DaysInMonths(year, 1, month)
                        + (day - 1)
  IN  HIJRI_EPOCH_JD + 24 * days

RECURSIVE Tabular_ScanMonths(_, _, _)
\* the month loop of the provider's julianDayToHijri
Tabular_ScanMonths(year, m, remainingDays) ==
  LET monthLength == Tabular_getMonthLength(year, m)
  IN  IF remainingDays < monthLength
        THEN [month |-> m, rem |-> remainingDays]
      ELSE IF m = 12
        THEN [month |-> 12, rem |-> remainingDays - monthLength]
      ELSE Tabular_ScanMonths(year, m + 1, remainingDays - monthLength)

\* the Date is built at noon UTC
Tabular_julianDayToGregorian(jdn) ==
  LET ymd == CivilFromDayNumber((jdn + 12) \div 24)
  IN  GregorianDate(ymd.year, ymd.month, ymd.day, 12, 0, 0)

Tabular_hijriToGregorian(year, month, day) ==
  Tabular_julianDayToGregorian(Tabular_hijriToJulianDay(year, month, day))

Tabular_julianDayToHijri(jdn) ==
  LET daysSinceEpoch == (jdn - HIJRI_EPOCH_JD + 12) \div 24
      cycles         == daysSinceEpoch \div LUNAR_CYCLE_DAYS
      ys             == ScanYears(1, daysSinceEpoch % LUNAR_CYCLE_DAYS)
      year           == cycles * LUNAR_CYCLE_YEARS + ys.add
      ms             == Tabular_ScanMonths(year, 1, ys.rem)
  IN  [year |-> year, month |-> ms.month, day |-> ms.rem + 1]

(***************************************************************************)
(* hijri-date-math.ts                                                      *)
(***************************************************************************)
addDays(date, days) ==
  IF days = 0 THEN date
  ELSE LET r == julianDayToHijri(hijriToJulianDay(date) + 24 * days)
       IN  HijriDate(r.year, r.month, r.day, date.hour)

\* JavaScript's %: the remainder has the sign of the dividend
JsRem(a, b) == IF a >= 0 THEN a % b ELSE -((-a) % b)

\* `throw new Error('Resulting date is before Hijri epoch')`
Thrown == [some |-> FALSE, v |-> <<"Error">>]

\* the day kept whatever the length of the target month
addMonths_keepsDay(date, months, clampDay) ==
  LET totalMonths == (date.year - 1) * 12 + (date.month - 1) + months
  IN  IF totalMonths < 0 THEN Thrown
      ELSE Some(HijriDate((totalMonths \div 12) + 1, (totalMonths % 12) + 1,
                          date.day, date.hour))

\* the result is None for `null` and Thrown for the error
addMonths(date, months, clampDay) ==
  IF months = 0 THEN Some(date)
  ELSE
    LET totalMonths == (date.year - 1) * 12 + (date.month - 1) + months
        wraps       == JsRem(totalMonths, 12) + 1 <= 0
        newYear     == IF wraps THEN (totalMonths \div 12) ELSE (totalMonths \div 12) + 1
        newMonth    == IF wraps THEN JsRem(totalMonths, 12) + 13
                       ELSE JsRem(totalMonths, 12) + 1
    IN  IF newYear < 1 THEN Thrown
        ELSE
          LET maxDay == getMonthLength(newYear, newMonth)
          IN  IF date.day > maxDay
                THEN IF clampDay
                       THEN Some(HijriDate(newYear, newMonth, maxDay, date.hour))
                       ELSE None
                ELSE Some(HijriDate(newYear, newMonth, date.day, date.hour))

\* the day kept whatever the length of the month in the target year
addYears_keepsDay(date, years, clampDay) ==
  IF date.year + years < 1 THEN Thrown
  ELSE Some(HijriDate(date.year + years, date.month, date.day, date.hour))

addYears(date, years, clampDay) ==
  IF years = 0 THEN Some(date)
  ELSE
    LET newYear == date.year + years
    IN  IF newYear < 1 THEN Thrown
        ELSE
          LET maxDay == getMonthLength(newYear, date.month)
          IN  IF date.day > maxDay
                THEN IF clampDay
                       THEN Some(HijriDate(newYear, date.month, maxDay, date.hour))
                       ELSE None
                ELSE Some(HijriDate(newYear, date.month, date.day, date.hour))

dayOfWeek(date) == hijriDayOfWeek(date)

RECURSIVE NthForward(_, _, _, _, _, _)
\* for (day = 1; day <= monthLength; day++) count matches up to the n-th
NthForward(year, month, weekday, n, day, count) ==
  IF day > getMonthLength(year, month) THEN None
  ELSE IF dayOfWeek(HijriDate(year, month, day, 0)) = weekday
    THEN IF count + 1 = n THEN Some(HijriDate(year, month, day, 0))
         ELSE NthForward(year, month, weekday, n, day + 1, count + 1)
  ELSE NthForward(year, month, weekday, n, day + 1, count)

RECURSIVE NthBackward(_, _, _, _, _, _)
\* for (day = monthLength; day >= 1; day--) count matches down to n
NthBackward(year, month, weekday, n, day, count) ==
  IF day < 1 THEN None
  ELSE IF dayOfWeek(HijriDate(year, month, day, 0)) = weekday
    THEN IF count - 1 = n THEN Some(HijriDate(year, month, day, 0))
         ELSE NthBackward(year, month, weekday, n, day - 1, count - 1)
  ELSE NthBackward(year, month, weekday, n, day - 1, count)

\* a negative n counted from the first day of the month as well
nthWeekdayOfMonth_forwardOnly(year, month, weekday, n) ==
  IF n = 0 THEN None
  ELSE NthForward(year, month, weekday, IF n > 0 THEN n ELSE -n, 1, 0)

\* the backward scan started at day 29, whatever the length of the month
nthWeekdayOfMonth_from29(year, month, weekday, n) ==
  IF n = 0 THEN None
  ELSE IF n > 0 THEN NthForward(year, month, weekday, n, 1, 0)
  ELSE NthBackward(year, month, weekday, n, 29, 0)

nthWeekdayOfMonth(year, month, weekday, n) ==
  IF n = 0 THEN None
  ELSE IF n > 0 THEN NthForward(year, month, weekday, n, 1, 0)
  ELSE NthBackward(year, month, weekday, n, getMonthLength(year, month), 0)

(***************************************************************************)
(* core/iterator.ts: candidate generation                                  *)
(*                                                                         *)
(* A normalized rule `o` is a record                                       *)
(*   [freq, dtstart, interval, count, until, skip, bysetpos, bymonth,      *)
(*    bymonthday, bynmonthday, byyearday, byweekday, bynweekday]           *)
(* whose count, until and BY-parts are optional values.  byweekday holds   *)
(* weekday numbers (the WeekdaySpec without n), bynweekday holds records   *)
(* [weekday, n].                                                           *)
(***************************************************************************)
RECURSIVE Insert(_, _)
\* places x after every element that does not compare greater (a stable sort)
Insert(x, sorted) ==
  IF sorted = <<>> THEN <<x>>
  ELSE IF compare(x, Head(sorted)) < 0 THEN <<x>> \o sorted
  ELSE <<Head(sorted)>> \o Insert(x, Tail(sorted))

RECURSIVE Sort(_)
Sort(dates) ==
  IF dates = <<>> THEN <<>>
  ELSE Insert(Last(dates), Sort(Front(dates)))

RECURSIVE Dedupe(_, _)
\* keeps a date unless it equals the last one kept
Dedupe(dates, result) ==
  IF dates = <<>> THEN result
  ELSE IF result = <<>> \/ ~equals(Last(result), Head(dates))
    THEN Dedupe(Tail(dates), Append(result, Head(dates)))
  ELSE Dedupe(Tail(dates), result)

\* sortAndDedupe without its sort
sortAndDedupe_unsorted(dates) == Dedupe(dates, <<>>)

sortAndDedupe(dates) == Dedupe(Sort(dates), <<>>)

\* the value of an optional date as a list of zero or one date
OptList(opt) == IF opt.some THEN <<opt.v>> ELSE <<>>

RECURSIVE Flatten(_)
Flatten(lists) ==
  IF lists = <<>> THEN <<>> ELSE Head(lists) \o Flatten(Tail(lists))

(***************************************************************************)
(* The month lengths come from the rule's calendar (options.calendar),     *)
(* while `new HijriDate(...)` validates the day against the process-wide   *)
(* default calendar and throws when it does not exist there.  A candidate  *)
(* that is not a valid date of the default calendar stands for that        *)
(* exception: it was constructed outside any try block, and iterate ends   *)
(* by throwing in the period that produces it.                             *)
(***************************************************************************)
IsDate(date) == isValidHijriDate(date.year, date.month, date.day)

\* tryCreateDate whose FORWARD does not roll the year after month 12
tryCreateDate_noYearRoll(year, month, day, strategy, calendar) ==
  LET maxDay == getMonthLengthIn(year, month, calendar)
  IN  IF day < 1 THEN None
      ELSE IF day > maxDay
        THEN CASE strategy = OMIT     -> None
               [] strategy = BACKWARD -> Some(HijriDate(year, month, maxDay, 0))
               [] strategy = FORWARD  ->
                    Some(HijriDate(year, (month % 12) + 1, 1, 0))
      ELSE IF isValidHijriDate(year, month, day)
        THEN Some(HijriDate(year, month, day, 0))
      ELSE None

\* the last construction is inside `try { } catch { return null }`
tryCreateDate(year, month, day, strategy, calendar) ==
  LET maxDay == getMonthLengthIn(year, month, calendar)
  IN  IF day < 1 THEN None
      ELSE IF day > maxDay
        THEN CASE strategy = OMIT     -> None
               [] strategy = BACKWARD -> Some(HijriDate(year, month, maxDay, 0))
               [] strategy = FORWARD  ->
                    IF month = 12 THEN Some(HijriDate(year + 1, 1, 1, 0))
                    ELSE Some(HijriDate(year, month + 1, 1, 0))
      ELSE IF isValidHijriDate(year, month, day)
        THEN Some(HijriDate(year, month, day, 0))
      ELSE None

RECURSIVE ScanYearDay(_, _, _, _)
\* the whole scan is inside `try { } catch { return null }`
ScanYearDay(year, month, remainingDays, calendar) ==
  IF month > 12 THEN None
  ELSE LET monthLength == getMonthLengthIn(year, month, calendar)
       IN  IF remainingDays <= monthLength
             THEN IF isValidHijriDate(year, month, remainingDays)
                    THEN Some(HijriDate(year, month, remainingDays, 0))
                    ELSE None
           ELSE ScanYearDay(year, month + 1, remainingDays - monthLength, calendar)

dayOfYearToDate(year, dayOfYear, calendar) == ScanYearDay(year, 1, dayOfYear, calendar)

\* every day of the month whose weekday is listed; a day the default
\* calendar does not have is constructed, and throws, before its weekday
\* is asked for
WeekdaysOfMonth(year, month, o) ==
  LET all == [d \in 1..getMonthLengthIn(year, month, o.calendar) |->
                HijriDate(year, month, d, 0)]
  IN  SelectSeq(all, LAMBDA date :
                       ~IsDate(date) \/ dayOfWeek(date) \in Range(o.byweekday.v))

(***************************************************************************)
(* The day candidates of one month: the chain BYMONTHDAY, negative         *)
(* BYMONTHDAY, nth BYDAY, simple BYDAY, the cursor's day.  The code has    *)
(* it once inside the BYMONTH loop of generateYearlyCandidates and once    *)
(* in generateMonthlyCandidates.                                           *)
(***************************************************************************)
MonthCandidates(year, month, periodStart, o) ==
  IF NonEmpty(o.bymonthday)
    THEN Flatten([i \in 1..Len(o.bymonthday.v) |->
                    OptList(tryCreateDate(year, month, o.bymonthday.v[i], o.skip,
                                          o.calendar))])
  ELSE IF NonEmpty(o.bynmonthday)
    THEN Flatten([i \in 1..Len(o.bynmonthday.v) |->
                    LET day == getMonthLengthIn(year, month, o.calendar)
                                 + o.bynmonthday.v[i] + 1
                    IN  IF day >= 1 THEN <<HijriDate(year, month, day, 0)>> ELSE <<>>])
  ELSE IF NonEmpty(o.bynweekday)
    THEN Flatten([i \in 1..Len(o.bynweekday.v) |->
                    OptList(nthWeekdayOfMonth(year, month, o.bynweekday.v[i].weekday,
                                              o.bynweekday.v[i].n))])
  ELSE IF NonEmpty(o.byweekday)
    THEN WeekdaysOfMonth(year, month, o)
  ELSE <<HijriDate(year, month,
                   Min(periodStart.day, getMonthLengthIn(year, month, o.calendar)),
                   0)>>

generateYearlyCandidates(periodStart, o) ==
  LET year == periodStart.year
      candidates ==
        IF NonEmpty(o.bymonth)
          THEN Flatten([i \in 1..Len(o.bymonth.v) |->
                          MonthCandidates(year, o.bymonth.v[i], periodStart, o)])
        ELSE IF NonEmpty(o.bymonthday)
          THEN Flatten([i \in 1..Len(o.bymonthday.v) |->
                          OptList(tryCreateDate(year, periodStart.month,
                                                o.bymonthday.v[i], o.skip,
                                                o.calendar))])
        ELSE IF NonEmpty(o.byyearday)
          THEN Flatten([i \in 1..Len(o.byyearday.v) |->
                          LET yearLength == getYearLengthIn(year, o.calendar)
                              yday       == o.byyearday.v[i]
                              actualDay  == IF yday > 0 THEN yday
                                            ELSE yearLength + yday + 1
                          IN  IF actualDay >= 1 /\ actualDay <= yearLength
                                THEN OptList(dayOfYearToDate(year, actualDay,
                                                             o.calendar))
                                ELSE <<>>])
        ELSE <<HijriDate(year, periodStart.month,
                         Min(periodStart.day,
                             getMonthLengthIn(year, periodStart.month, o.calendar)),
                         0)>>
      filtered ==
        IF NonEmpty(o.byweekday) /\ ~o.bymonth.some
          THEN SelectSeq(candidates,
                         LAMBDA c : dayOfWeek(c) \in Range(o.byweekday.v))
          ELSE candidates
  IN  sortAndDedupe(filtered)

generateMonthlyCandidates(periodStart, o) ==
  sortAndDedupe(MonthCandidates(periodStart.year, periodStart.month, periodStart, o))

generateWeeklyCandidates(periodStart, o) ==
  IF NonEmpty(o.byweekday)
    THEN sortAndDedupe(
           SelectSeq([i \in 1..7 |-> addDays(periodStart, i - 1)],
                     LAMBDA date : dayOfWeek(date) \in Range(o.byweekday.v)))
    ELSE sortAndDedupe(<<periodStart>>)

generateDailyCandidates(periodStart, o) ==
  IF NonEmpty(o.bymonth) /\ periodStart.month \notin Range(o.bymonth.v)
    THEN <<>>
  ELSE IF NonEmpty(o.bymonthday) /\ periodStart.day \notin Range(o.bymonthday.v)
    THEN <<>>
  ELSE IF NonEmpty(o.byweekday) /\ dayOfWeek(periodStart) \notin Range(o.byweekday.v)
    THEN <<>>
  ELSE <<periodStart>>

generateCandidates(periodStart, o) ==
  CASE o.freq = YEARLY  -> generateYearlyCandidates(periodStart, o)
    [] o.freq = MONTHLY -> generateMonthlyCandidates(periodStart, o)
    [] o.freq = WEEKLY  -> generateWeeklyCandidates(periodStart, o)
    [] o.freq = DAILY   -> generateDailyCandidates(periodStart, o)
    [] OTHER            -> <<periodStart>>

\* addYears(current, interval) || addYears(current, interval, true): the
\* first call already clamps (clampDay defaults to true)
advancePeriod(current, freq, interval) ==
  CASE freq = YEARLY  ->
         LET r == addYears(current, interval, TRUE)
         IN  IF r.some THEN r.v ELSE addYears(current, interval, TRUE).v
    [] freq = MONTHLY ->
         LET r == addMonths(current, interval, TRUE)
         IN  IF r.some THEN r.v ELSE addMonths(current, interval, TRUE).v
    [] freq = WEEKLY  -> addDays(current, interval * 7)
    [] freq = DAILY   -> addDays(current, interval)
    [] OTHER          -> addDays(current, 1)

applyBySetPos(candidates, positions) ==
  LET len == Len(candidates)
      pick(pos) ==
        LET index == IF pos > 0 THEN pos - 1 ELSE len + pos
        IN  IF index >= 0 /\ index < len THEN <<candidates[index + 1]>> ELSE <<>>
  IN  sortAndDedupe(Flatten([i \in 1..Len(positions) |-> pick(positions[i])]))

(***************************************************************************)
(* core/iterator.ts: iterate, a generator.  Its frame is the record        *)
(*   [pc, current, iterations, count, candidates, out, halt]               *)
(* pc is the place where it resumes: "loop" (the while test), "main" (the  *)
(* for loop over this period's candidates), "tail" (the for loop over      *)
(* lastCandidates) and "done".  candidates holds the dates the running     *)
(* for loop has still to visit, out the dates yielded so far, halt the     *)
(* reason it finished.                                                     *)
(***************************************************************************)
NewGenerator(o) ==
  [pc |-> "loop", current |-> o.dtstart, iterations |-> 0, count |-> 0,
   candidates |-> <<>>, out |-> <<>>, halt |-> "none"]

maxIterations(o) ==
  IF o.count.some /\ o.count.v # 0 THEN o.count.v * 100 ELSE 100000

\* `options.count !== undefined && count >= options.count`
CountReached(count, o) == o.count.some /\ count >= o.count.v

\* while (iterations < maxIterations): one more period
BeginPeriodStep(g, o) ==
  LET candidates == generateCandidates(g.current, o)
      filtered   == IF o.bysetpos.some
                      THEN applyBySetPos(candidates, o.bysetpos.v)
                      ELSE candidates
  IN  IF \E i \in 1..Len(candidates) : ~IsDate(candidates[i])
        THEN [g EXCEPT !.iterations = @ + 1, !.pc = "done", !.halt = "threw"]
        ELSE [g EXCEPT !.iterations = @ + 1, !.candidates = filtered, !.pc = "main"]

\* the while test fails: the generator ends
LoopExitStep(g, o) == [g EXCEPT !.pc = "done", !.halt = "bound"]

\* the turn without its UNTIL test
MainCandidateStep_untilIgnored(g, o) ==
  LET candidate == Head(g.candidates)
  IN  IF isBefore(candidate, o.dtstart)
        THEN [g EXCEPT !.candidates = Tail(@)]
      ELSE IF CountReached(g.count + 1, o)
        THEN [g EXCEPT !.out = Append(@, candidate), !.count = @ + 1,
                       !.pc = "done", !.halt = "count"]
      ELSE [g EXCEPT !.out = Append(@, candidate), !.count = @ + 1,
                     !.candidates = Tail(@)]

\* one turn of `for (const candidate of filtered)`
MainCandidateStep(g, o) ==
  LET candidate == Head(g.candidates)
  IN  IF isBefore(candidate, o.dtstart)
        THEN [g EXCEPT !.candidates = Tail(@)]
      ELSE IF o.until.some /\ isAfter(candidate, o.until.v)
        THEN [g EXCEPT !.pc = "done", !.halt = "until"]
      ELSE IF CountReached(g.count + 1, o)
        THEN [g EXCEPT !.out = Append(@, candidate), !.count = @ + 1,
                       !.pc = "done", !.halt = "count"]
      ELSE [g EXCEPT !.out = Append(@, candidate), !.count = @ + 1,
                     !.candidates = Tail(@)]

\* after the for loop: advance, and past UNTIL look at one more period
AdvanceStep(g, o) ==
  LET current        == advancePeriod(g.current, o.freq, o.interval)
      lastCandidates == generateCandidates(current, o)
  IN  IF o.until.some /\ isAfter(current, o.until.v)
        THEN IF \E i \in 1..Len(lastCandidates) : ~IsDate(lastCandidates[i])
               THEN [g EXCEPT !.current = current, !.pc = "done", !.halt = "threw"]
               ELSE [g EXCEPT !.current = current, !.pc = "tail",
                              !.candidates = lastCandidates]
        ELSE [g EXCEPT !.current = current, !.pc = "loop"]

\* one turn of `for (const candidate of lastCandidates)`
TailCandidateStep(g, o) ==
  LET candidate == Head(g.candidates)
  IN  IF isOnOrBefore(candidate, o.until.v) /\ isOnOrAfter(candidate, o.dtstart)
        THEN IF CountReached(g.count + 1, o)
               THEN [g EXCEPT !.out = Append(@, candidate), !.count = @ + 1,
                              !.pc = "done", !.halt = "count"]
               ELSE [g EXCEPT !.out = Append(@, candidate), !.count = @ + 1,
                              !.candidates = Tail(@)]
        ELSE [g EXCEPT !.candidates = Tail(@)]

\* lastCandidates is exhausted: return
TailReturnStep(g, o) == [g EXCEPT !.pc = "done", !.halt = "tail"]

(***************************************************************************)
(* Bounds of the exploration, and the rules and arguments it draws.        *)
(***************************************************************************)
\* a rule without a positive count (ceiling 100000) is followed this many periods
MaxPeriods == 12

MaxCount == 2

MaxInterval == 2

NoBy ==
  [bysetpos |-> None, bymonth |-> None, bymonthday |-> None, bynmonthday |-> None,
   byyearday |-> None, byweekday |-> None, bynweekday |-> None]

\* BY-parts whose candidates never pass through the skip policy
PlainByParts ==
  { NoBy,
    [NoBy EXCEPT !.bynmonthday = Some(<<-1, -30>>)],
    [NoBy EXCEPT !.byweekday = Some(<<6>>)],
    [NoBy EXCEPT !.byweekday = Some(<<6, 1>>), !.bysetpos = Some(<<2, -1>>)],
    [NoBy EXCEPT !.bynweekday = Some(<<[weekday |-> 6, n |-> 1],
                                        [weekday |-> 0, n |-> -1],
                                        [weekday |-> 1, n |-> 5]>>)],
    [NoBy EXCEPT !.byyearday = Some(<<355, 1, -1>>)],
    [NoBy EXCEPT !.bymonth = Some(<<9, 2>>), !.byweekday = Some(<<6>>)],
    [NoBy EXCEPT !.bymonth = Some(<<6>>)],
    [NoBy EXCEPT !.bysetpos = Some(<<>>)] }

\* BY-parts with positive month days, which the skip policy resolves
SkipByParts ==
  { [NoBy EXCEPT !.bymonthday = Some(<<30>>)],
    [NoBy EXCEPT !.bymonthday = Some(<<1, 30>>)],
    [NoBy EXCEPT !.bymonthday = Some(<<30, 15, 1>>), !.bysetpos = Some(<<-1, 1>>)],
    [NoBy EXCEPT !.bymonth = Some(<<12, 1>>), !.bymonthday = Some(<<30, 1>>)],
    [NoBy EXCEPT !.bymonthday = Some(<<15, 30>>), !.byweekday = Some(<<6, 3>>)] }

Skips == {OMIT, FORWARD, BACKWARD}

\* the BY-parts each frequency's generator reads (bysetpos is read by iterate)
PartsRead(freq) ==
  CASE freq = YEARLY  -> {"bysetpos", "bymonth", "bymonthday", "bynmonthday",
                          "byyearday", "byweekday", "bynweekday"}
    [] freq = MONTHLY -> {"bysetpos", "bymonthday", "bynmonthday", "byweekday",
                          "bynweekday"}
    [] freq = WEEKLY  -> {"bysetpos", "byweekday"}
    [] freq = DAILY   -> {"bysetpos", "bymonth", "bymonthday", "byweekday"}
    [] OTHER          -> {"bysetpos"}

PartsSet(o) == {p \in DOMAIN NoBy : o[p].some}

Rule(freq, dtstart, interval, count, until, skip, by) ==
  [freq |-> freq, dtstart |-> dtstart, interval |-> interval, count |-> count,
   until |-> until, skip |-> skip, bysetpos |-> by.bysetpos, bymonth |-> by.bymonth,
   bymonthday |-> by.bymonthday, bynmonthday |-> by.bynmonthday,
   byyearday |-> by.byyearday, byweekday |-> by.byweekday,
   bynweekday |-> by.bynweekday, calendar |-> "islamic-tbla"]

Counts == {None} \cup {Some(n) : n \in 0..MaxCount}

StartDates ==
  {HijriDate(1446, 1, 1, 0), HijriDate(1446, 1, 30, 12), HijriDate(1447, 12, 30, 0)}

Untils == {None, Some(HijriDate(1446, 3, 1, 0)), Some(HijriDate(1448, 1, 1, 0))}

\* the general family: every frequency with the BY-parts it reads
GeneralRules ==
  { Rule(freq, dtstart, interval, count, until, sb[1], sb[2]) :
      freq \in {YEARLY, MONTHLY, WEEKLY, DAILY, HOURLY}, dtstart \in StartDates,
      interval \in 1..MaxInterval, count \in Counts, until \in Untils,
      sb \in ({OMIT} \X PlainByParts) \cup (Skips \X SkipByParts) }

\* YEARLY on day d of month m, starting on that day
YearlyDayRules ==
  { Rule(YEARLY, HijriDate(year, m, d, 0), interval, count, None, skip,
         [NoBy EXCEPT !.bymonth = Some(<<m>>), !.bymonthday = Some(<<d>>)]) :
      year \in {1446, 1447}, m \in {1, 9, 12}, d \in {1, 29},
      interval \in 1..MaxInterval, count \in Counts, skip \in Skips }

\* MONTHLY on day 30, starting on day 30 of a 30-day month
MonthlyDay30Rules ==
  { Rule(MONTHLY, dtstart, 1, count, until, skip,
         [NoBy EXCEPT !.bymonthday = Some(<<30>>)]) :
      dtstart \in {HijriDate(1446, 1, 30, 0), HijriDate(1446, 11, 30, 0),
                   HijriDate(1447, 12, 30, 0)},
      count \in Counts, until \in {None, Some(HijriDate(1447, 3, 1, 0))},
      skip \in Skips }

\* MONTHLY on the last of three month days, UNTIL falling between them
SetPosRules ==
  { Rule(MONTHLY, HijriDate(1446, 1, 15, 0), 1, count,
         Some(HijriDate(1446, 3, 12, 0)), OMIT,
         [NoBy EXCEPT !.bymonthday = Some(<<1, 10, 20>>), !.bysetpos = Some(<<-1>>)]) :
      count \in Counts }

Rules ==
  {o \in GeneralRules : PartsSet(o) \subseteq PartsRead(o.freq)}
    \cup YearlyDayRules \cup MonthlyDay30Rules \cup SetPosRules

\* what an iterator callback may return
CallbackReturns == {"true", "false", "undefined"}

\* the narrower family of the rules that are queried
QueryRules ==
  { o \in { Rule(freq, HijriDate(1446, 1, 1, 0), interval, count, until, sb[1], sb[2]) :
              freq \in {YEARLY, MONTHLY, WEEKLY, DAILY}, interval \in {1, MaxInterval},
              count \in {None, Some(MaxCount)},
              until \in {None, Some(HijriDate(1446, 3, 1, 0))},
              sb \in { <<OMIT, NoBy>>,
                       <<OMIT, [NoBy EXCEPT !.byweekday = Some(<<6>>)]>>,
                       <<OMIT, [NoBy EXCEPT !.bymonth = Some(<<2>>)]>>,
                       <<FORWARD, [NoBy EXCEPT !.bymonthday = Some(<<1, 30>>)]>>,
                       <<BACKWARD, [NoBy EXCEPT !.bymonthday = Some(<<30>>)]>> } } :
      PartsSet(o) \subseteq PartsRead(o.freq) }
    \cup { Rule(DAILY, HijriDate(1446, 1, 1, 0), 1, Some(1), None, OMIT,
                [NoBy EXCEPT !.bymonth = Some(<<6>>)]) }

\* the dates a query is asked about
QueryDates ==
  {HijriDate(1445, 12, 29, 0), HijriDate(1446, 1, 1, 0), HijriDate(1446, 3, 1, 0),
   HijriDate(1446, 6, 1, 0)}

(***************************************************************************)
(* The state: one HijriRRule object and the call in progress on it.        *)
(***************************************************************************)
VARIABLES
  options,   \* this.options, the parsed rule
  cache,     \* this.cache, the RRuleCache
  status,    \* "idle", "running" (a call is inside its for-of loop), "returned"
  call,      \* the method called and its arguments
  gen,       \* the frame of the iterate generator the call consumes
  result,    \* the call's local `result`
  index,     \* the call's local `index`
  last,      \* getBefore's local `last`
  cbLog,     \* the callback invocations of the call, in order
  ret,       \* the value the call returned
  calc,      \* the last direct call of a library function: its name,
             \* arguments and outcome
  ruleSet,   \* one HijriRRuleSet object: its four lists and its cache
  history    \* the calls on the HijriRRule object that have returned, with
             \* the default calendar in force and the value returned

vars ==
  <<globalConfig, host, options, cache, status, call, gen, result, index, last,
    cbLog, ret, calc, ruleSet, history>>

\* no library function has been called directly
NoCalc == [op |-> "none", args |-> <<>>, value |-> <<>>]

NoCall ==
  [op |-> "none", iterator |-> FALSE, after |-> None, before |-> None,
   dt |-> None, inc |-> FALSE]

\* core/cache.ts: the three Maps are sets of [key, value] entries
\* enabled is FALSE for an object built with noCache (this.cache is null)
NewCache ==
  [enabled |-> TRUE, allCache |-> None, afterCache |-> {}, beforeCache |-> {},
   betweenCache |-> {}]

\* toString prints year, month and day, zero padded
toString(date) == <<date.year, date.month, date.day>>

\* makeKey without the flag inclusive
makeKey_flagIgnored(dt, inclusive) == <<toString(dt), TRUE>>

makeKey(dt, inclusive) == <<toString(dt), inclusive>>

makeBetweenKey(after, before, inclusive) ==
  <<toString(after), toString(before), inclusive>>

MapHas(map, key) == \E e \in map : e.key = key

MapGet(map, key) == (CHOOSE e \in map : e.key = key).value

MapSet(map, key, value) ==
  {e \in map : e.key # key} \cup {[key |-> key, value |-> value]}

\* rrule/hijri-rruleset.ts: a new set, its lists empty
\* frame holds the locals of generateOccurrences while it runs: the flag
\* iterator of the call, the member rules done, the dates they gave
NoFrame == [iterator |-> FALSE, done |-> 0, included |-> <<>>, excluded |-> <<>>]

NewRuleSet ==
  [rrules |-> <<>>, rdates |-> <<>>, exrules |-> <<>>, exdates |-> <<>>,
   cache |-> NewCache, frame |-> NoFrame]

Returned(c, value, threw) ==
  Append(history, [call |-> c, config |-> globalConfig, value |-> value, threw |-> threw])

InitObject(rules) ==
  /\ globalConfig = [defaultCalendar |-> "islamic-tbla", useIntl |-> TRUE]
  /\ host = [umalqura |-> TRUE, table |-> [y \in HostYears |-> MONTH_DAYS]]
  /\ calc = NoCalc
  /\ options \in rules
  /\ cache = NewCache
  /\ status = "idle"
  /\ call = NoCall
  /\ gen = [NewGenerator(options) EXCEPT !.pc = "done"]
  /\ result = <<>>
  /\ index = 0
  /\ last = None
  /\ cbLog = <<>>
  /\ ret = None
  /\ ruleSet = NewRuleSet
  /\ history = <<>>

Init == InitObject(Rules)

InitQuery == InitObject(QueryRules)

(***************************************************************************)
(* The bodies of the for-of loops that consume the generator.  Each maps   *)
(* the yielded date to the call's locals after one turn; stop says that    *)
(* the loop was left by break or return.                                   *)
(***************************************************************************)
Locals ==
  [result |-> result, index |-> index, last |-> last, cbLog |-> cbLog,
   stop |-> FALSE, found |-> None]

\* `if (iterator) { if (iterator(date, index) === false) break; } push; index++`
Visit(date, cbRet) ==
  LET logged == IF call.iterator
                  THEN Append(cbLog, [date |-> date, index |-> index,
                                      stopped |-> cbRet = "false"])
                  ELSE cbLog
  IN  IF call.iterator /\ cbRet = "false"
        THEN [Locals EXCEPT !.cbLog = logged, !.stop = TRUE]
        ELSE [Locals EXCEPT !.cbLog = logged, !.result = Append(@, date),
                            !.index = @ + 1]

\* the loop body that pushes the date before it consults the callback
allHijriBody_pushFirst(date, cbRet) ==
  [Visit(date, cbRet) EXCEPT !.result = Append(result, date), !.index = index + 1]

allHijriBody(date, cbRet) == Visit(date, cbRet)

\* the loop body whose upper bound is exclusive whatever inc says
betweenHijriBody_exclusiveEnd(date, cbRet) ==
  LET isAfterStart == IF call.inc THEN isOnOrAfter(date, call.after.v)
                      ELSE isAfter(date, call.after.v)
  IN  IF isOnOrAfter(date, call.before.v) THEN [Locals EXCEPT !.stop = TRUE]
      ELSE IF isAfterStart THEN Visit(date, cbRet)
      ELSE Locals

betweenHijriBody(date, cbRet) ==
  LET afterHijri   == call.after.v
      beforeHijri  == call.before.v
      past         == IF call.inc THEN isAfter(date, beforeHijri)
                      ELSE isOnOrAfter(date, beforeHijri)
      isAfterStart == IF call.inc THEN isOnOrAfter(date, afterHijri)
                      ELSE isAfter(date, afterHijri)
      isBeforeEnd  == IF call.inc THEN isOnOrBefore(date, beforeHijri)
                      ELSE isBefore(date, beforeHijri)
  IN  IF past /\ (~equals(date, beforeHijri) \/ ~call.inc)
        THEN [Locals EXCEPT !.stop = TRUE]
      ELSE IF isAfterStart /\ isBeforeEnd THEN Visit(date, cbRet)
      ELSE Locals

\* core/iterator.ts getBetween: the same loop without callback or cache
getBetweenBody(date) ==
  LET past         == IF call.inc THEN isAfter(date, call.before.v)
                      ELSE isOnOrAfter(date, call.before.v)
      isAfterStart == IF call.inc THEN isOnOrAfter(date, call.after.v)
                      ELSE isAfter(date, call.after.v)
      isBeforeEnd  == IF call.inc THEN isOnOrBefore(date, call.before.v)
                      ELSE isBefore(date, call.before.v)
  IN  IF past /\ ~equals(date, call.before.v)
        THEN [Locals EXCEPT !.stop = TRUE]
      ELSE IF isAfterStart /\ isBeforeEnd
        THEN [Locals EXCEPT !.result = Append(@, date)]
      ELSE Locals

\* the loop body that accepts dt itself whatever inc says
getAfterBody_inclusive(date) ==
  IF isOnOrAfter(date, call.dt.v)
    THEN [Locals EXCEPT !.found = Some(date), !.stop = TRUE]
    ELSE Locals

getAfterBody(date) ==
  IF (IF call.inc THEN isOnOrAfter(date, call.dt.v) ELSE isAfter(date, call.dt.v))
    THEN [Locals EXCEPT !.found = Some(date), !.stop = TRUE]
    ELSE Locals

\* the loop body that excludes dt itself whatever inc says
getBeforeBody_exclusive(date) ==
  IF isBefore(date, call.dt.v)
    THEN [Locals EXCEPT !.last = Some(date)]
    ELSE [Locals EXCEPT !.stop = TRUE]

getBeforeBody(date) ==
  IF (IF call.inc THEN isOnOrBefore(date, call.dt.v) ELSE isBefore(date, call.dt.v))
    THEN [Locals EXCEPT !.last = Some(date)]
    ELSE [Locals EXCEPT !.stop = TRUE]

Body(date, cbRet) ==
  CASE call.op = "allHijri"     -> allHijriBody(date, cbRet)
    [] call.op = "betweenHijri" -> betweenHijriBody(date, cbRet)
    [] call.op = "getBetween"   -> getBetweenBody(date)
    [] call.op = "afterHijri"   -> getAfterBody(date)
    [] call.op = "beforeHijri"  -> getBeforeBody(date)

\* what the call returns once its loop is over
ReturnValue(c) ==
  CASE call.op = "allHijri"     -> c.result
    [] call.op = "betweenHijri" -> c.result
    [] call.op = "getBetween"   -> c.result
    [] call.op = "afterHijri"   -> c.found
    [] call.op = "beforeHijri"  -> c.last

\* the cache writes that follow the loop
CacheAfter(c) ==
  CASE ~cache.enabled           -> cache
    [] call.op = "allHijri"     ->
         IF call.iterator THEN cache ELSE [cache EXCEPT !.allCache = Some(c.result)]
    [] call.op = "betweenHijri" ->
         IF call.iterator THEN cache
         ELSE [cache EXCEPT !.betweenCache =
                 MapSet(@, makeBetweenKey(call.after.v, call.before.v, call.inc),
                        c.result)]
    [] call.op = "afterHijri"   ->
         [cache EXCEPT !.afterCache = MapSet(@, makeKey(call.dt.v, call.inc), c.found)]
    [] call.op = "beforeHijri"  ->
         [cache EXCEPT !.beforeCache = MapSet(@, makeKey(call.dt.v, call.inc), c.last)]
    [] call.op = "getBetween"   -> cache

(***************************************************************************)
(* One resumption of the generator, from frame gen to frame g, and what    *)
(* the consuming loop does with it: a yielded date runs the loop body, a   *)
(* break abandons the generator, and the end of the loop runs the rest of  *)
(* the method.                                                             *)
(***************************************************************************)
Resume(g, cbRet) ==
  LET yields   == Len(g.out) > Len(gen.out)
      c        == IF yields THEN Body(Last(g.out), cbRet) ELSE Locals
      finished == c.stop \/ g.pc = "done"
      threw    == g.halt = "threw"
      value    == IF threw THEN Thrown ELSE ReturnValue(c)
  IN  /\ gen' = IF c.stop THEN [g EXCEPT !.pc = "done", !.halt = "break"] ELSE g
      /\ result' = c.result
      /\ index' = c.index
      /\ last' = c.last
      /\ cbLog' = c.cbLog
      /\ status' = IF finished THEN "returned" ELSE "running"
      /\ ret' = IF finished THEN value ELSE ret
      /\ cache' = IF finished /\ ~threw THEN CacheAfter(c) ELSE cache
      /\ history' = IF finished THEN Returned(call, value, threw) ELSE history
      /\ UNCHANGED <<globalConfig, host, calc, options, call, ruleSet>>

\* entering the for-of loop over iterate(this.options)
Enter(c) ==
  /\ status = "idle"
  /\ call' = c
  /\ gen' = NewGenerator(options)
  /\ result' = <<>>
  /\ index' = 0
  /\ last' = None
  /\ cbLog' = <<>>
  /\ status' = "running"
  /\ UNCHANGED <<globalConfig, host, calc, options, cache, ret, ruleSet, history>>

\* a call answered from the cache
Cached(c, value) ==
  /\ status = "idle"
  /\ call' = c
  /\ ret' = value
  /\ status' = "returned"
  /\ history' = Returned(c, value, FALSE)
  /\ UNCHANGED <<globalConfig, host, calc, options, cache, gen, result, index, last,
                 cbLog, ruleSet>>

Call_allHijri ==
  \E iterator \in BOOLEAN :
    LET c == [NoCall EXCEPT !.op = "allHijri", !.iterator = iterator]
    IN  IF cache.allCache.some /\ ~iterator
          THEN Cached(c, cache.allCache.v)
          ELSE Enter(c)

Call_betweenHijri ==
  \E after \in QueryDates, before \in QueryDates, inc \in BOOLEAN, iterator \in BOOLEAN :
    LET c   == [NoCall EXCEPT !.op = "betweenHijri", !.after = Some(after),
                              !.before = Some(before), !.inc = inc,
                              !.iterator = iterator]
        key == makeBetweenKey(after, before, inc)
    IN  /\ isOnOrBefore(after, before)
        /\ IF ~iterator /\ MapHas(cache.betweenCache, key)
             THEN Cached(c, MapGet(cache.betweenCache, key))
             ELSE Enter(c)

Call_getBetween ==
  \E after \in QueryDates, before \in QueryDates, inclusive \in BOOLEAN :
    /\ isOnOrBefore(after, before)
    /\ Enter([NoCall EXCEPT !.op = "getBetween", !.after = Some(after),
                            !.before = Some(before), !.inc = inclusive])

Call_afterHijri ==
  \E dt \in QueryDates, inc \in BOOLEAN :
    LET c == [NoCall EXCEPT !.op = "afterHijri", !.dt = Some(dt), !.inc = inc]
    IN  IF MapHas(cache.afterCache, makeKey(dt, inc))
          THEN Cached(c, MapGet(cache.afterCache, makeKey(dt, inc)))
          ELSE Enter(c)

Call_beforeHijri ==
  \E dt \in QueryDates, inc \in BOOLEAN :
    LET c == [NoCall EXCEPT !.op = "beforeHijri", !.dt = Some(dt), !.inc = inc]
    IN  IF MapHas(cache.beforeCache, makeKey(dt, inc))
          THEN Cached(c, MapGet(cache.beforeCache, makeKey(dt, inc)))
          ELSE Enter(c)

\* the periods the exploration follows: all of them under a positive count
Followed(g, o) == (o.count.some /\ o.count.v > 0) \/ g.iterations < MaxPeriods

BeginPeriod ==
  /\ status = "running" /\ gen.pc = "loop"
  /\ gen.iterations < maxIterations(options)
  /\ Followed(gen, options)
  /\ \E cbRet \in CallbackReturns : Resume(BeginPeriodStep(gen, options), cbRet)

LoopExit ==
  /\ status = "running" /\ gen.pc = "loop"
  /\ ~(gen.iterations < maxIterations(options))
  /\ \E cbRet \in CallbackReturns : Resume(LoopExitStep(gen, options), cbRet)

MainCandidate ==
  /\ status = "running" /\ gen.pc = "main"
  /\ gen.candidates # <<>>
  /\ \E cbRet \in CallbackReturns : Resume(MainCandidateStep(gen, options), cbRet)

AdvancePeriod ==
  /\ status = "running" /\ gen.pc = "main"
  /\ gen.candidates = <<>>
  /\ \E cbRet \in CallbackReturns : Resume(AdvanceStep(gen, options), cbRet)

TailCandidate ==
  /\ status = "running" /\ gen.pc = "tail"
  /\ gen.candidates # <<>>
  /\ \E cbRet \in CallbackReturns : Resume(TailCandidateStep(gen, options), cbRet)

TailReturn ==
  /\ status = "running" /\ gen.pc = "tail"
  /\ gen.candidates = <<>>
  /\ \E cbRet \in CallbackReturns : Resume(TailReturnStep(gen, options), cbRet)

Generate ==
  \/ BeginPeriod
  \/ LoopExit
  \/ MainCandidate
  \/ AdvancePeriod
  \/ TailCandidate
  \/ TailReturn

Next == Call_allHijri \/ Generate

Spec == Init /\ [][Next]_vars

NextQuery ==
  \/ Call_betweenHijri
  \/ Call_getBetween
  \/ Call_afterHijri
  \/ Call_beforeHijri
  \/ Generate

SpecQuery == InitQuery /\ [][NextQuery]_vars

(***************************************************************************)
(* Properties of the enumeration (iterate and allHijri), under Spec.       *)
(***************************************************************************)
NonDecreasing(dates) ==
  \A i \in 1..(Len(dates) - 1) : isOnOrBefore(dates[i], dates[i + 1])

StrictlyAscending(dates) ==
  \A i \in 1..(Len(dates) - 1) : isBefore(dates[i], dates[i + 1])

C2_CountLimit ==
  (options.count.some /\ status # "idle") =>
     /\ Len(gen.out) <= options.count.v
     /\ (Len(gen.out) = options.count.v /\ gen.out # <<>>) => gen.pc = "done"

\* C3: every yielded date is on or after dtstart and, under an until, on or
\* before it; an until before dtstart leaves nothing to yield.
C3_WithinStartAndUntil ==
  /\ \A i \in 1..Len(gen.out) :
       /\ isOnOrAfter(gen.out[i], options.dtstart)
       /\ options.until.some => isOnOrBefore(gen.out[i], options.until.v)
  /\ (options.until.some /\ isBefore(options.until.v, options.dtstart)) =>
       gen.out = <<>>

\* C3 case: a call returned after the rule ran into its until, the last
\* date yielded being the until date itself.
C3_Witness ==
  /\ status = "returned"
  /\ options.until.some
  /\ gen.halt \in {"until", "tail"}
  /\ Len(gen.out) >= 2
  /\ equals(Last(gen.out), options.until.v)

\* C4: the list allHijri returns holds no date twice and is ascending, under
\* every skip policy.
C4_NoDuplicates ==
  (status = "returned" /\ call.op = "allHijri") => StrictlyAscending(ret)

\* what the three-way resolution of (year, month, day) is to produce
Resolved(year, month, day, policy) ==
  IF day <= getMonthLength(year, month) THEN Some(HijriDate(year, month, day, 0))
  ELSE IF policy = OMIT THEN None
  ELSE IF policy = BACKWARD
    THEN Some(HijriDate(year, month, getMonthLength(year, month), 0))
  ELSE IF month = 12 THEN Some(HijriDate(year + 1, 1, 1, 0))
  ELSE Some(HijriDate(year, month + 1, 1, 0))

\* the month k months after (year, month), as <<year, month>>
MonthAfter(year, month, k) ==
  <<year + ((month - 1 + k) \div 12), ((month - 1 + k) % 12) + 1>>

RECURSIVE NextLongMonth(_, _)
\* the first 30-day month at or after (year, month)
NextLongMonth(year, month) ==
  IF getMonthLength(year, month) = 30 THEN <<year, month>>
  ELSE NextLongMonth(MonthAfter(year, month, 1)[1], MonthAfter(year, month, 1)[2])

RECURSIVE LongMonth(_, _, _)
\* the i-th 30-day month counted from (year, month), itself included
LongMonth(year, month, i) ==
  LET here == NextLongMonth(year, month)
      next == MonthAfter(here[1], here[2], 1)
  IN  IF i <= 1 THEN here ELSE LongMonth(next[1], next[2], i - 1)

\* the i-th date of MONTHLY, bymonthday 30, from day 30 of a 30-day month
Day30Expected(start, policy, i) ==
  LET ym == MonthAfter(start.year, start.month, i - 1)
      lm == LongMonth(start.year, start.month, i)
  IN  IF policy = OMIT THEN HijriDate(lm[1], lm[2], 30, 0)
      ELSE Resolved(ym[1], ym[2], 30, policy).v

\* C5: a positive month day beyond the month's length resolves three ways
\* (OMIT nothing, BACKWARD the month's last day, FORWARD day 1 of the next
\* month, rolling the year after month 12), and MONTHLY on day 30 from day 30
\* of a 30-day month yields accordingly: only the 30-day months under OMIT,
\* day 29 in the 29-day months under BACKWARD, day 1 of the following month
\* in their place under FORWARD.
C5_SkipPolicy ==
  /\ \A month \in (IF NonEmpty(options.bymonth) THEN Range(options.bymonth.v)
                   ELSE {gen.current.month}), day \in 1..31 :
       tryCreateDate(gen.current.year, month, day, options.skip, options.calendar)
         = Resolved(gen.current.year, month, day, options.skip)
  /\ options \in MonthlyDay30Rules =>
       \A i \in 1..Len(gen.out) :
         gen.out[i] = Day30Expected(options.dtstart, options.skip, i)

\* C5 case: under FORWARD the rule started on 1446-11-30 has spilled out of
\* the 29-day month 12 into 1447-01-01 and gone on.
C5_Witness ==
  /\ options \in MonthlyDay30Rules
  /\ options.skip = FORWARD
  /\ Len(gen.out) >= 4
  /\ gen.out[2] = HijriDate(1447, 1, 1, 0)

\* C6: YEARLY on day d <= 29 of month m from (Y, m, d), interval k, count n,
\* yields exactly the n dates (Y + i k, m, d), i = 0..n-1, in that order.
C6_YearlyOnDay ==
  (options \in YearlyDayRules /\ options.count.some) =>
     /\ \A i \in 1..Len(gen.out) :
          gen.out[i] = HijriDate(options.dtstart.year + (i - 1) * options.interval,
                                 options.dtstart.month, options.dtstart.day, 0)
     /\ (status = "returned" /\ call.op = "allHijri" /\ ~call.iterator) =>
          Len(ret) = options.count.v

\* C10: with a callback, allHijri stops at the first occurrence for which it
\* returns false: that occurrence and the later ones are not in the result,
\* the callback is not invoked again, and it has been given the occurrences
\* in yield order with the indices 0, 1, 2, ...
C10_CallbackStops ==
  (call.op = "allHijri" /\ call.iterator) =>
     /\ Len(cbLog) = Len(gen.out)
     /\ \A j \in 1..Len(cbLog) :
          /\ cbLog[j].index = j - 1
          /\ cbLog[j].date = gen.out[j]
          /\ cbLog[j].stopped => j = Len(cbLog)
     /\ (cbLog # <<>> /\ Last(cbLog).stopped) =>
          /\ status = "returned"
          /\ gen.pc = "done"
          /\ ret = Front(gen.out)
     /\ (status = "returned" /\ ~(cbLog # <<>> /\ Last(cbLog).stopped)) =>
          ret = gen.out

\* C10 case: the callback returned false at the third occurrence.
C10_Witness ==
  /\ status = "returned"
  /\ call.op = "allHijri" /\ call.iterator
  /\ Len(cbLog) = 3
  /\ Last(cbLog).stopped
  /\ Len(ret) = 2

(***************************************************************************)
(* Properties of the queries, under SpecQuery.  The rule's occurrence      *)
(* sequence is what iterate yields when it is run to its end (over the     *)
(* periods the exploration follows).                                       *)
(***************************************************************************)
\* the generator is at its end, or at a period the exploration does not follow
AtEnd(g, o) ==
  \/ g.pc = "done"
  \/ g.pc = "loop" /\ g.iterations < maxIterations(o) /\ ~Followed(g, o)

\* the generator after its next step
Step(g, o) ==
  IF g.pc = "loop"
    THEN IF ~(g.iterations < maxIterations(o)) THEN LoopExitStep(g, o)
         ELSE BeginPeriodStep(g, o)
  ELSE IF g.pc = "main"
    THEN IF g.candidates # <<>> THEN MainCandidateStep(g, o) ELSE AdvanceStep(g, o)
  ELSE IF g.candidates # <<>> THEN TailCandidateStep(g, o)
  ELSE TailReturnStep(g, o)

RECURSIVE Advance(_, _, _)
\* the generator after its next 2^k steps, or at its end if that comes first
Advance(g, o, k) ==
  IF AtEnd(g, o) THEN g
  ELSE IF k = 0 THEN Step(g, o)
  ELSE Advance(Advance(g, o, k - 1), o, k - 1)

RECURSIVE DrainBy(_, _, _)
\* runs the generator to its end in strides of 2^k, 2^(k+1), ... steps, which
\* keeps the evaluation shallow however many periods the rule takes
DrainBy(g, o, k) ==
  IF AtEnd(g, o) THEN g.out ELSE DrainBy(Advance(g, o, k), o, k + 1)

\* the dates yielded when the generator is run to its end
Drain(g, o) == DrainBy(g, o, 0)

Occurrences(o) == Drain(NewGenerator(o), o)

\* the date of a list that no other one precedes / follows
Earliest(dates) ==
  CHOOSE d \in Range(dates) : \A e \in Range(dates) : isOnOrBefore(d, e)

Latest(dates) ==
  CHOOSE d \in Range(dates) : \A e \in Range(dates) : isOnOrAfter(d, e)

CalcYears == {1, 2, 29, 30, 31, 60, 1442, 1443, 1444, 1446, 1470}

\* the first years, two whole 30-year cycles and the start of a third
MaxCycleYear == 61

CycleYears == (1..MaxCycleYear) \cup CalcYears

\* the dates `new HijriDate(year, month, day, hour)` accepts
LunarDates ==
  {d \in {HijriDate(y, m, dd, h) : y \in CalcYears, m \in 1..12, dd \in 1..30,
                                   h \in {0, 12}} :
     isValidHijriDate(d.year, d.month, d.day)}

InitCalendar ==
  /\ globalConfig = defaultConfig
  /\ host \in Hosts
  /\ calc = NoCalc
  /\ options = Rule(YEARLY, HijriDate(1446, 1, 1, 0), 1, None, None, OMIT, NoBy)
  /\ cache = NewCache
  /\ status = "idle"
  /\ call = NoCall
  /\ gen = [NewGenerator(options) EXCEPT !.pc = "done"]
  /\ result = <<>>
  /\ index = 0
  /\ last = None
  /\ cbLog = <<>>
  /\ ret = None
  /\ ruleSet = NewRuleSet
  /\ history = <<>>

\* a direct call of a library function leaves the configuration and the rule
\* object alone
Called(op, args, value) ==
  /\ calc' = [op |-> op, args |-> args, value |-> value]
  /\ UNCHANGED <<globalConfig, host, options, cache, status, call, gen, result,
                 index, last, cbLog, ret, ruleSet, history>>

SetCalendarConfig ==
  /\ calc.op = "none"
  /\ \E c \in Configs :
    /\ globalConfig' = c
    /\ UNCHANGED <<host, calc, options, cache, status, call, gen, result, index,
                   last, cbLog, ret, ruleSet, history>>

\* julianDayToHijri(hijriToJulianDay(d))
Call_julianDayToHijri ==
  /\ calc.op = "none"
  /\ \E d \in LunarDates :
       Called("julianDayToHijri", <<d>>, julianDayToHijri(hijriToJulianDay(d)))

\* the tabular provider's julianDayToHijri(hijriToJulianDay(year, month, day))
Call_Tabular_julianDayToHijri ==
  /\ calc.op = "none"
  /\ \E d \in LunarDates :
       /\ Tabular_getMonthLength(d.year, d.month) >= d.day
       /\ Called("Tabular.julianDayToHijri", <<d>>,
                 Tabular_julianDayToHijri(
                   Tabular_hijriToJulianDay(d.year, d.month, d.day)))

\* the times of day of the Gregorian arguments: <<hour, minute, second>>
TimesOfDay == {<<0, 0, 0>>, <<12, 0, 0>>, <<23, 59, 59>>}

\* the Gregorian years the calls are made on: the year of the Hijri epoch, a
\* century year that is not a leap year, one that is, and a leap year
GregorianYears == {622, 1900, 2000, 2024}

\* the days of a month of the proleptic Gregorian calendar of Date.UTC
DaysInGregorianMonth(year, month) ==
  IF month = 2
    THEN IF (year % 4 = 0 /\ year % 100 # 0) \/ year % 400 = 0 THEN 29 ELSE 28
  ELSE IF month \in {4, 6, 9, 11} THEN 30
  ELSE 31

\* the Dates on or after the Hijri epoch, 19 July 622
GregorianDates ==
  {GregorianDate(y, m, d, t[1], t[2], t[3]) :
     y \in GregorianYears, m \in 1..12, d \in 1..31, t \in TimesOfDay}

\* julianDayToGregorian(gregorianToJulianDay(g))
Call_julianDayToGregorian ==
  /\ calc.op = "none"
  /\ \E g \in GregorianDates :
       /\ g.day <= DaysInGregorianMonth(g.year, g.month)
       /\ g.year = 622 => (g.month > 7 \/ (g.month = 7 /\ g.day >= 19))
       /\ Called("julianDayToGregorian", <<g>>,
                 julianDayToGregorian(gregorianToJulianDay(g)))

Call_dayOfWeek ==
  /\ calc.op = "none"
  /\ \E d \in LunarDates : Called("dayOfWeek", <<d>>, dayOfWeek(d))

Call_getDaysBeforeMonth ==
  /\ calc.op = "none"
  /\ \E year \in CalcYears, month \in 1..12 :
       Called("getDaysBeforeMonth", <<year, month>>,
              getDaysBeforeMonth(year, month))

Call_getDayOfYear ==
  /\ calc.op = "none"
  /\ \E d \in LunarDates :
       Called("getDayOfYear", <<d.year, d.month, d.day>>,
              getDayOfYear(d.year, d.month, d.day))

Call_isLeapYear ==
  /\ calc.op = "none"
  /\ \E year \in CycleYears : Called("isLeapYear", <<year>>, isLeapYear(year))

Call_getMonthLength ==
  /\ calc.op = "none"
  /\ \E year \in CycleYears, month \in 1..12 :
       Called("getMonthLength", <<year, month>>, getMonthLength(year, month))

Call_getYearLength ==
  /\ calc.op = "none"
  /\ \E year \in CycleYears :
       Called("getYearLength", <<year>>, getYearLength(year))

\* the largest number of months or years added or taken away in one call
MaxShift == 13

\* the years the date arithmetic is called on: the first two, where a negative
\* shift leaves the calendar, a leap year and the common year after it
MathYears == {1, 2, 1442, 1443}

\* the first day of a month and the two days that may be its last
MathDates == {d \in LunarDates : d.year \in MathYears /\ d.day \in {1, 29, 30}}

Call_addMonths ==
  /\ calc.op = "none"
  /\ \E d \in MathDates, months \in -MaxShift..MaxShift, clampDay \in BOOLEAN :
       Called("addMonths", <<d, months, clampDay>>,
              addMonths(d, months, clampDay))

Call_addYears ==
  /\ calc.op = "none"
  /\ \E d \in MathDates, years \in -MaxShift..MaxShift, clampDay \in BOOLEAN :
       Called("addYears", <<d, years, clampDay>>, addYears(d, years, clampDay))

\* the largest ordinal, forward or backward, asked of nthWeekdayOfMonth
MaxNth == 5

\* a leap year and the common year after it
NthYears == {1442, 1443}

Call_nthWeekdayOfMonth ==
  /\ calc.op = "none"
  /\ \E year \in NthYears, month \in 1..12, weekday \in 0..6,
        n \in -MaxNth..MaxNth :
       Called("nthWeekdayOfMonth", <<year, month, weekday, n>>,
              nthWeekdayOfMonth(year, month, weekday, n))

NextCalendar ==
  \/ SetCalendarConfig
  \/ Call_nthWeekdayOfMonth
  \/ Call_addMonths
  \/ Call_addYears
  \/ Call_isLeapYear
  \/ Call_getMonthLength
  \/ Call_getYearLength
  \/ Call_getDaysBeforeMonth
  \/ Call_getDayOfYear
  \/ Call_dayOfWeek
  \/ Call_julianDayToHijri
  \/ Call_Tabular_julianDayToHijri
  \/ Call_julianDayToGregorian

SpecCalendar == InitCalendar /\ [][NextCalendar]_vars

\* the provider that answers the calls made without a calendar argument
DefaultProvider == getCalendarProvider(globalConfig.defaultCalendar)

(***************************************************************************)
(* C11: for every valid lunar date d and both backends, the date           *)
(* julianDayToHijri(hijriToJulianDay(d)) has the year, month and day of d  *)
(* (the converter's functions under the default calendar of the process,   *)
(* and the tabular provider's own pair).                                   *)
(***************************************************************************)
C11_LunarRoundTrip ==
  calc.op \in {"julianDayToHijri", "Tabular.julianDayToHijri"}
    => equals(calc.value, calc.args[1])

(***************************************************************************)
(* C12: for every Gregorian date g on or after the Hijri epoch and any     *)
(* time of day, julianDayToGregorian(gregorianToJulianDay(g)) falls on the *)
(* UTC year, month and day of g.                                           *)
(***************************************************************************)
C12_GregorianRoundTrip ==
  calc.op = "julianDayToGregorian"
    => /\ calc.value.year = calc.args[1].year
       /\ calc.value.month = calc.args[1].month
       /\ calc.value.day = calc.args[1].day

(***************************************************************************)
(* C13: dayOfWeek numbers the weekdays Saturday = 0, Sunday = 1, ...,      *)
(* Friday = 6, consistently with the conversions: with the tabular         *)
(* calendar, dayOfWeek(d) is the Saturday-based weekday of the Gregorian   *)
(* day hijriToGregorian(d), for every valid lunar date d.                  *)
(***************************************************************************)
\* Date.prototype.getUTCDay, 0 = Sunday ... 6 = Saturday, by Zeller's rule
getUTCDay(g) ==
  LET m == IF g.month < 3 THEN g.month + 12 ELSE g.month
      y == IF g.month < 3 THEN g.year - 1 ELSE g.year
      h == (g.day + ((13 * (m + 1)) \div 5) + (y % 100) + ((y % 100) \div 4)
              + ((y \div 100) \div 4) + 5 * (y \div 100)) % 7
  IN  (h + 6) % 7

SaturdayBased(g) == (getUTCDay(g) + 1) % 7

C13_WeekdayConsistent ==
  (calc.op = "dayOfWeek" /\ DefaultProvider = "tabular")
    => LET d == calc.args[1]
       IN  calc.value = SaturdayBased(Tabular_hijriToGregorian(d.year, d.month, d.day))

(***************************************************************************)
(* C14: with the tabular calendar, for every year y and month m of 1..12,  *)
(* getDaysBeforeMonth(y, m) is the sum of getMonthLength(y, k) over        *)
(* k = 1..m-1, and getDayOfYear(y, m, d) is that sum plus d.               *)
(***************************************************************************)
RECURSIVE MonthLengthsBefore(_, _)
MonthLengthsBefore(year, month) ==
  IF month <= 1 THEN 0
  ELSE MonthLengthsBefore(year, month - 1) + getMonthLength(year, month - 1)

C14_DaysBeforeMonth ==
  DefaultProvider = "tabular"
    => /\ calc.op = "getDaysBeforeMonth"
            => calc.value = MonthLengthsBefore(calc.args[1], calc.args[2])
       /\ calc.op = "getDayOfYear"
            => calc.value
                 = MonthLengthsBefore(calc.args[1], calc.args[2]) + calc.args[3]

(***************************************************************************)
(* C15: for the tabular backend and every year y >= 1, isLeapYear(y) is    *)
(* true exactly when y mod 30, with 0 read as 30, is one of 2, 5, 7, 10,   *)
(* 13, 16, 18, 21, 24, 26, 29; and the position ((y-1) mod 30) + 1 that    *)
(* the day-number conversion counts the years with designates the same     *)
(* years: from 1 Muharram of y to 1 Muharram of y + 1 it counts 355 days   *)
(* exactly when isLeapYear(y).                                             *)
(***************************************************************************)
C15_LeapCycle ==
  (calc.op = "isLeapYear" /\ DefaultProvider = "tabular")
    => LET y        == calc.args[1]
           position == IF y % 30 = 0 THEN 30 ELSE y % 30
           newYear  == hijriToJulianDay(HijriDate(y, 1, 1, 0))
           nextYear == hijriToJulianDay(HijriDate(y + 1, 1, 1, 0))
       IN  /\ calc.value
                = (position \in {2, 5, 7, 10, 13, 16, 18, 21, 24, 26, 29})
           /\ nextYear - newYear = 24 * (IF calc.value THEN 355 ELSE 354)

\* isLeapYear has answered for the last year of a cycle and for a leap year
\* of the second cycle
C15_Witness ==
  /\ DefaultProvider = "tabular"
  /\ calc.op = "isLeapYear"
  /\ \/ calc.args[1] = 60 /\ ~calc.value
     \/ calc.args[1] = 59 /\ calc.value

(***************************************************************************)
(* C16: for every year y of the tabular calendar, the lengths of its       *)
(* twelve months add up to getYearLength(y); getYearLength(y) is 355 if    *)
(* isLeapYear(y) and 354 otherwise; every month has 29 or 30 days; and the *)
(* thirty years from y on have 10631 days.                                 *)
(***************************************************************************)
RECURSIVE YearLengthsFrom(_, _)
YearLengthsFrom(year, n) ==
  IF n = 0 THEN 0 ELSE getYearLength(year) + YearLengthsFrom(year + 1, n - 1)

C17_AddMonths ==
  calc.op = "addMonths"
    => LET date        == calc.args[1]
           clamp       == calc.args[3]
           monthIndex  == 12 * (date.year - 1) + (date.month - 1) + calc.args[2]
           targetYear  == (monthIndex \div 12) + 1
           targetMonth == (monthIndex % 12) + 1
           lastDay     == getMonthLength(targetYear, targetMonth)
       IN  /\ (calc.value = Thrown) <=> (targetYear < 1)
           /\ targetYear >= 1 =>
                calc.value
                  = IF date.day <= lastDay
                      THEN Some(HijriDate(targetYear, targetMonth, date.day,
                                          date.hour))
                    ELSE IF clamp
                      THEN Some(HijriDate(targetYear, targetMonth, lastDay,
                                          date.hour))
                    ELSE None

\* a 30th has been moved back across a year boundary into a 29-day month
\* without clamping, and a date of year 1 has been moved before the epoch
C17_Witness ==
  /\ calc.op = "addMonths"
  /\ \/ /\ calc.args = <<HijriDate(1442, 1, 30, 12), -1, FALSE>>
        /\ DefaultProvider = "tabular"
        /\ calc.value = None
     \/ /\ calc.args[1].year = 1
        /\ calc.args[2] < 0
        /\ calc.value = Thrown

DaysOnWeekday(year, month, weekday) ==
  {day \in 1..getMonthLength(year, month) :
     dayOfWeek(HijriDate(year, month, day, 0)) = weekday}

Abs(n) == IF n < 0 THEN -n ELSE n

C19_NthWeekday ==
  (calc.op = "nthWeekdayOfMonth" /\ calc.args[4] # 0)
    => LET year  == calc.args[1]
           month == calc.args[2]
           n     == calc.args[4]
           days  == DaysOnWeekday(year, month, calc.args[3])
       IN  IF Cardinality(days) < Abs(n) THEN calc.value = None
           ELSE /\ calc.value.some
                /\ calc.value.v.year = year
                /\ calc.value.v.month = month
                /\ calc.value.v.day \in days
                /\ n > 0 => Cardinality({e \in days : e < calc.value.v.day}) = n - 1
                /\ n < 0 => Cardinality({e \in days : e > calc.value.v.day}) = -n - 1

\* a second-to-last weekday has been found, and it is not the second one
\* counted from the start of the month
C19_Witness ==
  /\ calc.op = "nthWeekdayOfMonth"
  /\ calc.args[4] = -2
  /\ calc.value.some
  /\ calc.value.v.day > 14

(***************************************************************************)
(* C20: for every valid year and month, every weekday and every n with     *)
(* 1 <= |n| <= 5, nthWeekdayOfMonth returns a date: "not found" never      *)
(* happens for n within +-5.                                               *)
(***************************************************************************)
C20_AlwaysFound ==
  (calc.op = "nthWeekdayOfMonth" /\ Abs(calc.args[4]) \in 1..5)
    => calc.value.some

\* as amended: a date is always returned for 1 <= |n| <= 4; for |n| = 5 the
\* result is null exactly when the month has only four days on that weekday
C20_FoundUpToFour ==
  calc.op = "nthWeekdayOfMonth"
    => LET days == DaysOnWeekday(calc.args[1], calc.args[2], calc.args[3])
       IN  /\ Abs(calc.args[4]) \in 1..4 => calc.value.some
           /\ Abs(calc.args[4]) = 5
                => /\ Cardinality(days) \in {4, 5}
                   /\ (calc.value = None) <=> (Cardinality(days) = 4)

\* a fifth weekday has been asked for in a month that has only four of them
C20_Witness ==
  /\ calc.op = "nthWeekdayOfMonth"
  /\ Abs(calc.args[4]) = 5
  /\ calc.value = None
  /\ Cardinality(DaysOnWeekday(calc.args[1], calc.args[2], calc.args[3])) = 4

(***************************************************************************)
(* core/options-parser.ts: the sparse options a caller hands to the        *)
(* constructor, and their normalization.  A raw number is the record       *)
(* [int, v]: the integer v, or the fraction v + 1/2 when int is FALSE.  A  *)
(* raw BY value is the record [array, items]: the array items, or the      *)
(* scalar items[1] when array is FALSE.  A raw weekday is [kind, weekday,  *)
(* n]: a number, a HijriWeekday instance or a WeekdaySpec literal.  A raw  *)
(* date is [kind, date]: a HijriDate instance or a plain {year, month,     *)
(* day} structure.                                                         *)
(***************************************************************************)
MINUTELY == 5

SECONDLY == 6

DEFAULT_WKST == 1

Whole(v) == [int |-> TRUE, v |-> v]

Half(v) == [int |-> FALSE, v |-> v]

\* Number.isInteger(x)
isInteger(x) == x.int

\* x < k and x > k against an integer k
Below(x, k) == x.v < k

Above(x, k) == IF x.int THEN x.v > k ELSE x.v >= k

Scalar(x) == Some([array |-> FALSE, items |-> <<x>>])

Array(xs) == Some([array |-> TRUE, items |-> xs])

toArray(value) == IF value.some THEN Some(value.v.items) ELSE None

normalizeWeekdays(value) ==
  IF ~value.some THEN None
  ELSE Some([i \in 1..Len(value.v.items) |->
               LET v == value.v.items[i]
               IN  IF v.kind = "number" THEN [weekday |-> v.weekday, n |-> None]
                   ELSE [weekday |-> v.weekday, n |-> v.n]])

toHijriDate(value) ==
  IF value.kind = "HijriDate" THEN value.date
  ELSE HijriDate(value.date.year, value.date.month, value.date.day, 0)

separateMonthDays(days) ==
  IF ~days.some THEN [positive |-> None, negative |-> None]
  ELSE LET positive == SelectSeq(days.v, LAMBDA day : Above(day, 0))
           negative == SelectSeq(days.v, LAMBDA day : Below(day, 0))
       IN  [positive |-> IF Len(positive) > 0 THEN Some(positive) ELSE None,
            negative |-> IF Len(negative) > 0 THEN Some(negative) ELSE None]

separateWeekdays(weekdays) ==
  IF ~weekdays.some THEN [simple |-> None, nth |-> None]
  ELSE LET nth    == SelectSeq(weekdays.v, LAMBDA wd : wd.n.some)
           simple == SelectSeq(weekdays.v, LAMBDA wd : ~wd.n.some)
       IN  [simple |-> IF Len(simple) > 0 THEN Some(simple) ELSE None,
            nth    |-> IF Len(nth) > 0 THEN Some(nth) ELSE None]

\* `for (const x of toArray(field)) if (bad(x)) throw`
Rejects(field, bad(_)) ==
  LET array == toArray(field)
  IN  array.some /\ \E i \in 1..Len(array.v) : bad(array.v[i])

\* validateOptions without its bysetpos block
validateOptions_setposUnchecked(o) ==
  IF ~o.freq.some THEN "freq is required"
  ELSE IF o.freq.v < YEARLY \/ o.freq.v > SECONDLY THEN "Invalid frequency"
  ELSE IF o.interval.some
          /\ (~isInteger(o.interval.v) \/ Below(o.interval.v, 1))
    THEN "Invalid interval"
  ELSE IF o.count.some
          /\ (~isInteger(o.count.v) \/ Below(o.count.v, 0))
    THEN "Invalid count"
  ELSE IF Rejects(o.bymonth,
                  LAMBDA m : ~isInteger(m) \/ Below(m, 1) \/ Above(m, 12))
    THEN "Invalid bymonth"
  ELSE IF Rejects(o.bymonthday,
                  LAMBDA d : ~isInteger(d) \/ d.v = 0 \/ Below(d, -30) \/ Above(d, 30))
    THEN "Invalid bymonthday"
  ELSE IF Rejects(o.byyearday,
                  LAMBDA d : ~isInteger(d) \/ d.v = 0 \/ Below(d, -355) \/ Above(d, 355))
    THEN "Invalid byyearday"
  ELSE IF Rejects(o.byhour,
                  LAMBDA h : ~isInteger(h) \/ Below(h, 0) \/ Above(h, 23))
    THEN "Invalid byhour"
  ELSE IF Rejects(o.byminute,
                  LAMBDA m : ~isInteger(m) \/ Below(m, 0) \/ Above(m, 59))
    THEN "Invalid byminute"
  ELSE IF Rejects(o.bysecond,
                  LAMBDA x : ~isInteger(x) \/ Below(x, 0) \/ Above(x, 59))
    THEN "Invalid bysecond"
  ELSE ""

\* the message of the error validateOptions throws, "" when it returns
validateOptions(o) ==
  IF ~o.freq.some THEN "freq is required"
  ELSE IF o.freq.v < YEARLY \/ o.freq.v > SECONDLY THEN "Invalid frequency"
  ELSE IF o.interval.some
          /\ (~isInteger(o.interval.v) \/ Below(o.interval.v, 1))
    THEN "Invalid interval"
  ELSE IF o.count.some
          /\ (~isInteger(o.count.v) \/ Below(o.count.v, 0))
    THEN "Invalid count"
  ELSE IF Rejects(o.bymonth,
                  LAMBDA m : ~isInteger(m) \/ Below(m, 1) \/ Above(m, 12))
    THEN "Invalid bymonth"
  ELSE IF Rejects(o.bymonthday,
                  LAMBDA d : ~isInteger(d) \/ d.v = 0 \/ Below(d, -30) \/ Above(d, 30))
    THEN "Invalid bymonthday"
  ELSE IF Rejects(o.byyearday,
                  LAMBDA d : ~isInteger(d) \/ d.v = 0 \/ Below(d, -355) \/ Above(d, 355))
    THEN "Invalid byyearday"
  ELSE IF Rejects(o.bysetpos,
                  LAMBDA q : ~isInteger(q) \/ q.v = 0 \/ Below(q, -366) \/ Above(q, 366))
    THEN "Invalid bysetpos"
  ELSE IF Rejects(o.byhour,
                  LAMBDA h : ~isInteger(h) \/ Below(h, 0) \/ Above(h, 23))
    THEN "Invalid byhour"
  ELSE IF Rejects(o.byminute,
                  LAMBDA m : ~isInteger(m) \/ Below(m, 0) \/ Above(m, 59))
    THEN "Invalid byminute"
  ELSE IF Rejects(o.bysecond,
                  LAMBDA x : ~isInteger(x) \/ Below(x, 0) \/ Above(x, 59))
    THEN "Invalid bysecond"
  ELSE ""

\* a validated array of numbers holds integers: it is kept as their values
Values(array) ==
  IF array.some THEN Some([i \in 1..Len(array.v) |-> array.v[i].v]) ELSE None

\* the normalized o, or Thrown; now is the Hijri date of `new Date()`.
\* A plain weekday {weekday} is kept as its number, an ordinal one as
\* [weekday, n].
parseOptions(o, now) ==
  IF validateOptions(o) # "" THEN Thrown
  ELSE
    LET dtstart   == IF o.dtstart.some THEN toHijriDate(o.dtstart.v)
                     ELSE now
        until     == IF o.until.some THEN Some(toHijriDate(o.until.v))
                     ELSE None
        monthDays == separateMonthDays(toArray(o.bymonthday))
        weekdays  == separateWeekdays(normalizeWeekdays(o.byweekday))
    IN  Some(
          [freq        |-> o.freq.v,
           dtstart     |-> dtstart,
           interval    |-> IF o.interval.some THEN o.interval.v.v ELSE 1,
           wkst        |-> IF o.wkst.some THEN o.wkst.v ELSE DEFAULT_WKST,
           count       |-> IF o.count.some THEN Some(o.count.v.v) ELSE None,
           until       |-> until,
           tzid        |-> o.tzid,
           bysetpos    |-> Values(toArray(o.bysetpos)),
           bymonth     |-> Values(toArray(o.bymonth)),
           bymonthday  |-> Values(monthDays.positive),
           bynmonthday |-> Values(monthDays.negative),
           byyearday   |-> Values(toArray(o.byyearday)),
           byweekno    |-> Values(toArray(o.byweekno)),
           byweekday   |->
             IF weekdays.simple.some
               THEN Some([i \in 1..Len(weekdays.simple.v) |->
                            weekdays.simple.v[i].weekday])
               ELSE None,
           bynweekday  |->
             IF weekdays.nth.some
               THEN Some([i \in 1..Len(weekdays.nth.v) |->
                            [weekday |-> weekdays.nth.v[i].weekday,
                             n       |-> weekdays.nth.v[i].n.v]])
               ELSE None,
           byhour      |-> Values(toArray(o.byhour)),
           byminute    |-> Values(toArray(o.byminute)),
           bysecond    |-> Values(toArray(o.bysecond)),
           skip        |-> IF o.skip.some THEN o.skip.v ELSE OMIT,
           calendar    |-> IF o.calendar.some THEN o.calendar.v
                           ELSE globalConfig.defaultCalendar])

\* a normalized structure handed to parseOptions: the fields parseOptions
\* reads are found under their names, each array as an array
AsPartial(parsed) ==
  LET numbers(field) ==
        IF field.some
          THEN Array([i \in 1..Len(field.v) |-> Whole(field.v[i])])
          ELSE None
  IN  [freq       |-> Some(parsed.freq),
       dtstart    |-> Some([kind |-> "HijriDate", date |-> parsed.dtstart]),
       interval   |-> Some(Whole(parsed.interval)),
       wkst       |-> Some(parsed.wkst),
       count      |-> IF parsed.count.some THEN Some(Whole(parsed.count.v)) ELSE None,
       until      |-> IF parsed.until.some
                        THEN Some([kind |-> "HijriDate", date |-> parsed.until.v])
                        ELSE None,
       tzid       |-> parsed.tzid,
       bysetpos   |-> numbers(parsed.bysetpos),
       bymonth    |-> numbers(parsed.bymonth),
       bymonthday |-> numbers(parsed.bymonthday),
       byyearday  |-> numbers(parsed.byyearday),
       byweekno   |-> numbers(parsed.byweekno),
       byweekday  |->
         IF parsed.byweekday.some
           THEN Array([i \in 1..Len(parsed.byweekday.v) |->
                         [kind |-> "spec", weekday |-> parsed.byweekday.v[i],
                          n |-> None]])
           ELSE None,
       byhour     |-> numbers(parsed.byhour),
       byminute   |-> numbers(parsed.byminute),
       bysecond   |-> numbers(parsed.bysecond),
       skip       |-> Some(parsed.skip),
       calendar   |-> Some(parsed.calendar)]

(***************************************************************************)
(* The raw options explored: a valid rule with one field varied over       *)
(* values on both sides of each limit validateOptions tests.               *)
(***************************************************************************)
RawDate(date) == [kind |-> "HijriDate", date |-> date]

RawBase(freq) ==
  [freq |-> Some(freq), dtstart |-> Some(RawDate(HijriDate(1446, 1, 1, 12))),
   interval |-> None, wkst |-> None, count |-> Some(Whole(2)), until |-> None,
   tzid |-> None, bysetpos |-> None, bymonth |-> None, bymonthday |-> None,
   byyearday |-> None, byweekno |-> None, byweekday |-> None, byhour |-> None,
   byminute |-> None, bysecond |-> None, skip |-> None, calendar |-> None]

\* a BY value built from the numbers xs: alone, in an array, after a valid
\* first element, and the empty array
ByValues(xs, valid) ==
  {Array(<<>>)}
    \cup {Scalar(x) : x \in xs} \cup {Array(<<x>>) : x \in xs}
    \cup {Array(<<Whole(valid), x>>) : x \in xs}

Around(low, high) ==
  {Whole(v) : v \in {low - 1, low, high, high + 1}} \cup {Half(low)}

RawWeekdays ==
  { Array(<<>>),
    Scalar([kind |-> "number", weekday |-> 6, n |-> None]),
    Scalar([kind |-> "HijriWeekday", weekday |-> 6, n |-> Some(1)]),
    Array(<<[kind |-> "HijriWeekday", weekday |-> 6, n |-> None],
            [kind |-> "spec", weekday |-> 0, n |-> Some(-1)]>>),
    Array(<<[kind |-> "spec", weekday |-> 1, n |-> None],
            [kind |-> "number", weekday |-> 6, n |-> None]>>) }

RawVariants(base) ==
  {base}
    \cup {[base EXCEPT !.freq = f] : f \in {None} \cup {Some(v) : v \in -1..7}}
    \cup {[base EXCEPT !.interval = Some(x)] :
            x \in {Whole(-1), Whole(0), Whole(1), Whole(2), Half(0), Half(1)}}
    \cup {[base EXCEPT !.count = c] :
            c \in {None} \cup {Some(x) : x \in {Whole(-1), Whole(0), Whole(1), Half(1)}}}
    \cup {[base EXCEPT !.bymonth = b] : b \in ByValues(Around(1, 12), 1)}
    \cup {[base EXCEPT !.bymonthday = b] :
            b \in ByValues(Around(-30, -1) \cup Around(1, 30), 1)}
    \cup {[base EXCEPT !.byyearday = b] :
            b \in ByValues(Around(-355, -1) \cup Around(1, 355), 1)}
    \cup {[base EXCEPT !.bysetpos = b] :
            b \in ByValues(Around(-366, -1) \cup Around(1, 366), 1)}
    \cup {[base EXCEPT !.byhour = b] : b \in ByValues(Around(0, 23), 0)}
    \cup {[base EXCEPT !.byminute = b] : b \in ByValues(Around(0, 59), 0)}
    \cup {[base EXCEPT !.bysecond = b] : b \in ByValues(Around(0, 59), 0)}
    \cup {[base EXCEPT !.byweekno = b] : b \in ByValues({Whole(1), Whole(53)}, 1)}
    \cup {[base EXCEPT !.byweekday = b] : b \in RawWeekdays}
    \cup {[base EXCEPT !.dtstart = d] :
            d \in {None, Some([kind |-> "like", date |-> HijriDate(1446, 1, 30, 12)])}}
    \cup {[base EXCEPT !.until = Some(RawDate(HijriDate(1446, 3, 1, 0)))]}
    \cup {[base EXCEPT !.skip = Some(k)] : k \in Skips}
    \cup {[base EXCEPT !.calendar = Some("islamic-tbla")],
          [base EXCEPT !.wkst = Some(0)], [base EXCEPT !.tzid = Some("UTC")]}

RawOptions == UNION {RawVariants(RawBase(freq)) : freq \in {YEARLY, MONTHLY, DAILY}}

\* the Hijri dates `new Date()` may stand for
Nows == {HijriDate(1446, 1, 1, 0), HijriDate(1446, 6, 15, 12)}

\* before `new HijriRRule(options)`: no object yet
InitParse ==
  /\ globalConfig = [defaultCalendar |-> "islamic-tbla", useIntl |-> TRUE]
  /\ host = [umalqura |-> TRUE, table |-> [y \in HostYears |-> MONTH_DAYS]]
  /\ calc = NoCalc
  /\ options = RawBase(YEARLY)
  /\ cache = NewCache
  /\ status = "new"
  /\ call = NoCall
  /\ gen = [NewGenerator([dtstart |-> HijriDate(1446, 1, 1, 0)]) EXCEPT !.pc = "done"]
  /\ result = <<>>
  /\ index = 0
  /\ last = None
  /\ cbLog = <<>>
  /\ ret = None
  /\ ruleSet = NewRuleSet
  /\ history = <<>>

\* the constructor: parseOptions throws, or the object exists with its
\* normalized options and an empty cache
Construct ==
  /\ status = "new"
  /\ \E raw \in RawOptions, now \in Nows :
       LET parsed == parseOptions(raw, now)
       IN  /\ calc' = [op |-> "parseOptions", args |-> <<raw>>, value |-> parsed]
           /\ options' = IF parsed.some THEN parsed.v ELSE options
           /\ status' = IF parsed.some THEN "idle" ELSE "threw"
           /\ UNCHANGED <<globalConfig, host, cache, call, gen, result, index, last,
                          cbLog, ret, ruleSet, history>>

NextParse == Construct \/ Call_allHijri \/ Generate

SpecParse == InitParse /\ [][NextParse]_vars

(***************************************************************************)
(* Properties of the normalization, under SpecParse.                       *)
(***************************************************************************)
\* x lies outside [low, high]
Outside(x, low, high) == x.v < low \/ x.v > high \/ (~x.int /\ x.v = high)

AnyItem(field, bad(_)) ==
  field.some /\ \E i \in 1..Len(field.v.items) : bad(field.v.items[i])

\* the raw options break one of the documented limits
Violated(raw) ==
  \/ ~raw.freq.some
  \/ raw.freq.v \notin YEARLY..SECONDLY
  \/ raw.interval.some /\ ~(raw.interval.v.int /\ raw.interval.v.v >= 1)
  \/ raw.count.some /\ ~(raw.count.v.int /\ raw.count.v.v >= 0)
  \/ AnyItem(raw.bymonth, LAMBDA x : Outside(x, 1, 12))
  \/ AnyItem(raw.bymonthday, LAMBDA x : Outside(x, -30, -1) /\ Outside(x, 1, 30))
  \/ AnyItem(raw.byyearday, LAMBDA x : Outside(x, -355, -1) /\ Outside(x, 1, 355))
  \/ AnyItem(raw.bysetpos, LAMBDA x : x = Whole(0))
  \/ AnyItem(raw.byhour, LAMBDA x : Outside(x, 0, 23))
  \/ AnyItem(raw.byminute, LAMBDA x : Outside(x, 0, 59))
  \/ AnyItem(raw.bysecond, LAMBDA x : Outside(x, 0, 59))

\* C21: whenever the raw options break a limit (frequency missing or outside
\* YEARLY..SECONDLY, interval not a positive integer, count not a
\* non-negative integer, a month outside [1,12], a month day outside
\* [-30,-1] and [1,30], a year day outside [-355,-1] and [1,355], a set
\* position 0, an hour outside [0,23], a minute or second outside [0,59]),
\* the constructor throws: no normalized rule exists and nothing is
\* enumerated from them.
C21_InvalidRejected ==
  (calc.op = "parseOptions" /\ Violated(calc.args[1]))
    => (~calc.value.some /\ status = "threw" /\ gen.out = <<>>)

\* a set position 0 after a valid one has been rejected
C21_Witness ==
  /\ calc.op = "parseOptions"
  /\ calc.args[1].bysetpos = Array(<<Whole(1), Whole(0)>>)
  /\ status = "threw"

BY_PARTS ==
  {"bymonth", "bymonthday", "bynmonthday", "byyearday", "byweekno", "byweekday",
   "bynweekday", "bysetpos", "byhour", "byminute", "bysecond"}

\* C22: in a normalized rule every BY-part is absent or a non-empty array
C22_NoEmptyArray ==
  (calc.op = "parseOptions" /\ calc.value.some)
    => \A part \in BY_PARTS :
         calc.value.v[part].some => Len(calc.value.v[part].v) > 0

\* C23: parseOptions applied to a normalized structure returns a structure
\* equal to it in every field
C23_Idempotent ==
  (calc.op = "parseOptions" /\ calc.value.some)
    => \A now \in Nows : parseOptions(AsPartial(calc.value.v), now) = calc.value

(***************************************************************************)
(* rrule/hijri-rruleset.ts: HijriRRuleSet.  Each method is one step; a     *)
(* member rule's allHijri() is its occurrence sequence.  The step taken    *)
(* last is recorded in calc.                                               *)
(***************************************************************************)
\* the additions made to one set
MaxAdditions == 3

SetRules ==
  { Rule(MONTHLY, HijriDate(1446, 1, 1, 12), 1, Some(2), None, OMIT, NoBy),
    Rule(MONTHLY, HijriDate(1446, 1, 15, 0), 1, None, Some(HijriDate(1446, 2, 12, 0)),
         OMIT, [NoBy EXCEPT !.bymonthday = Some(<<1, 20>>)]) }

SetDates ==
  {HijriDate(1446, 1, 1, 0), HijriDate(1446, 1, 8, 12), HijriDate(1446, 2, 1, 12)}

\* the rule the variable options holds while no member rule is enumerated
NoRule == Rule(YEARLY, HijriDate(1446, 1, 1, 0), 1, None, None, OMIT, NoBy)

\* RRuleCache.clear that keeps the cached result of all()
clear_keepsAll(c) == c

\* RRuleCache.clear
clear(c) ==
  [c EXCEPT !.allCache = None, !.afterCache = {}, !.beforeCache = {},
            !.betweenCache = {}]

\* Map.set on a Map kept as the list of its entries in insertion order
OrderedSet(map, key, value) ==
  IF \E i \in 1..Len(map) : map[i].key = key
    THEN [i \in 1..Len(map) |->
            IF map[i].key = key THEN [key |-> key, value |-> value] ELSE map[i]]
    ELSE Append(map, [key |-> key, value |-> value])

RECURSIVE SetEach(_, _)
\* `for (const date of dates) inclusions.set(date.toString(), date)`
SetEach(map, dates) ==
  IF dates = <<>> THEN map
  ELSE SetEach(OrderedSet(map, toString(Head(dates)), Head(dates)), Tail(dates))

\* the dates of the member rules, rule after rule
AllOf(rules) == Flatten([i \in 1..Len(rules) |-> Occurrences(rules[i])])

\* the member rules in the order generateOccurrences calls their allHijri()
Members(rs) == rs.rrules \o rs.exrules

\* generateOccurrences once its two loops over the member rules have ended
\* with the dates included and excluded
generateOccurrences(rs, included, excluded) ==
  LET inclusions == SetEach(SetEach(<<>>, rs.rdates), included)
      exclusions == {toString(date) : date \in Range(rs.exdates \o excluded)}
      kept       == SelectSeq(inclusions, LAMBDA e : e.key \notin exclusions)
  IN  Sort([i \in 1..Len(kept) |-> kept[i].value])

Additions(rs) == Len(rs.rrules) + Len(rs.rdates) + Len(rs.exrules) + Len(rs.exdates)

\* no call of a member rule is in progress
AtRest ==
  /\ options' = NoRule
  /\ status' = "idle"
  /\ call' = NoCall
  /\ gen' = [NewGenerator(NoRule) EXCEPT !.pc = "done"]
  /\ result' = <<>>
  /\ index' = 0
  /\ last' = None
  /\ cbLog' = <<>>
  /\ ret' = None
  /\ cache' = NewCache
  /\ history' = <<>>

SetStep(op, args, value, rs) ==
  /\ status = "idle"
  /\ calc' = [op |-> op, args |-> args, value |-> value]
  /\ ruleSet' = rs
  /\ UNCHANGED <<globalConfig, host, options, cache, status, call, gen, result,
                 index, last, cbLog, ret, history>>

Set_rrule ==
  /\ Additions(ruleSet) < MaxAdditions
  /\ \E rule \in SetRules :
       SetStep("rrule", <<rule>>, <<>>,
               [ruleSet EXCEPT !.rrules = Append(@, rule), !.cache = clear(@)])

Set_rdate ==
  /\ Additions(ruleSet) < MaxAdditions
  /\ \E date \in SetDates :
       SetStep("rdate", <<date>>, <<>>,
               [ruleSet EXCEPT !.rdates = Append(@, date), !.cache = clear(@)])

Set_exrule ==
  /\ Additions(ruleSet) < MaxAdditions
  /\ \E rule \in SetRules :
       SetStep("exrule", <<rule>>, <<>>,
               [ruleSet EXCEPT !.exrules = Append(@, rule), !.cache = clear(@)])

Set_exdate ==
  /\ Additions(ruleSet) < MaxAdditions
  /\ \E date \in SetDates :
       SetStep("exdate", <<date>>, <<>>,
               [ruleSet EXCEPT !.exdates = Append(@, date), !.cache = clear(@)])

\* `rule.allHijri()` of member k begins; the steps of Generate enumerate it
BeginMember(rs, k) ==
  /\ ruleSet' = rs
  /\ options' = Members(rs)[k]
  /\ call' = [NoCall EXCEPT !.op = "allHijri"]
  /\ gen' = NewGenerator(Members(rs)[k])
  /\ result' = <<>>
  /\ index' = 0
  /\ last' = None
  /\ cbLog' = <<>>
  /\ ret' = None
  /\ status' = "running"
  /\ cache' = NewCache
  /\ history' = <<>>
  /\ UNCHANGED <<globalConfig, host, calc>>

\* allHijri(iterator) returns: the callback, if any, returns false at index
\* stop, or never when stop is the length of the result
Conclude(rs, iterator, included, excluded) ==
  \E generated \in {generateOccurrences(rs, included, excluded)} :
    \E stop \in (IF iterator THEN 0..Len(generated) ELSE {Len(generated)}) :
      /\ calc' = [op |-> "allHijri", args |-> <<iterator>>,
                  value |-> SubSeq(generated, 1, stop)]
      /\ ruleSet' = [rs EXCEPT !.frame = NoFrame,
                               !.cache.allCache = IF iterator THEN @ ELSE Some(generated)]
      /\ AtRest
      /\ UNCHANGED <<globalConfig, host>>

Set_allHijri ==
  /\ status = "idle"
  /\ \E iterator \in BOOLEAN :
       IF ruleSet.cache.allCache.some /\ ~iterator
         THEN SetStep("allHijri", <<iterator>>, ruleSet.cache.allCache.v, ruleSet)
       ELSE IF Members(ruleSet) = <<>>
         THEN Conclude(ruleSet, iterator, <<>>, <<>>)
       ELSE BeginMember([ruleSet EXCEPT !.frame.iterator = iterator], 1)

\* a member's allHijri() has returned inside generateOccurrences
Set_member ==
  /\ status = "returned"
  /\ LET k     == ruleSet.frame.done + 1
         frame == IF k <= Len(ruleSet.rrules)
                    THEN [ruleSet.frame EXCEPT !.done = k, !.included = @ \o ret]
                    ELSE [ruleSet.frame EXCEPT !.done = k, !.excluded = @ \o ret]
     IN  IF k < Len(Members(ruleSet))
           THEN BeginMember([ruleSet EXCEPT !.frame = frame], k + 1)
           ELSE Conclude(ruleSet, frame.iterator, frame.included, frame.excluded)

\* the member rules end by COUNT or UNTIL, never at the period ceiling
NextSet ==
  \/ Set_rrule
  \/ Set_rdate
  \/ Set_exrule
  \/ Set_exdate
  \/ Set_allHijri
  \/ Set_member
  \/ BeginPeriod
  \/ MainCandidate
  \/ AdvancePeriod
  \/ TailCandidate
  \/ TailReturn

\* a new HijriRRuleSet
InitSet == InitObject({NoRule})

SpecSet == InitSet /\ [][NextSet]_vars

Keys(dates) == {toString(date) : date \in Range(dates)}

\* C24: whatever additions and allHijri() calls came before, allHijri()
\* returns, in strictly ascending order and so once per YYYY-MM-DD key, the
\* dates that are an rdate or an occurrence of a member rrule and are
\* neither an exdate nor an occurrence of a member exrule, for the set as it
\* is now.
C24_SetComposition ==
  (calc.op = "allHijri" /\ ~calc.args[1])
    => /\ StrictlyAscending(calc.value)
       /\ Keys(calc.value) =
            (Keys(ruleSet.rdates) \cup Keys(AllOf(ruleSet.rrules)))
              \ (Keys(ruleSet.exdates) \cup Keys(AllOf(ruleSet.exrules)))

\* a result of two dates from a rule and an rdate, a third one excluded
C24_Witness ==
  /\ calc.op = "allHijri" /\ ~calc.args[1]
  /\ Len(ruleSet.rrules) = 1 /\ Len(ruleSet.rdates) = 1 /\ Len(ruleSet.exdates) = 1
  /\ Len(calc.value) = 2
  /\ Keys(ruleSet.exdates) \subseteq Keys(AllOf(ruleSet.rrules))
  /\ ~(Keys(ruleSet.rdates) \subseteq Keys(AllOf(ruleSet.rrules)))

(***************************************************************************)
(* Further properties of the enumeration, under Spec.                      *)
(***************************************************************************)
\* C25: a MONTHLY or YEARLY rule without BY-parts yields, in every period,
\* the day min(dtstart.day, length of that period's month)
C25_StartDayEachPeriod ==
  (options.freq \in {YEARLY, MONTHLY} /\ PartsSet(options) = {})
    => \A i \in 1..Len(gen.out) :
         gen.out[i].day =
           Min(options.dtstart.day, getMonthLength(gen.out[i].year, gen.out[i].month))

RECURSIVE Cursor(_, _)
\* the start of the k-th period after the first one
Cursor(o, k) ==
  IF k = 0 THEN o.dtstart ELSE advancePeriod(Cursor(o, k - 1), o.freq, o.interval)

\* date stands at one of the requested positions of the list candidates
AtPosition(date, candidates, positions) ==
  \E j \in 1..Len(positions) :
    LET place == IF positions[j] > 0 THEN positions[j]
                 ELSE Len(candidates) + positions[j] + 1
    IN  place \in 1..Len(candidates) /\ candidates[place] = date

\* C26: under bysetpos every yielded date stands at a requested position of
\* the candidate list of one of the periods examined, the period examined
\* past UNTIL included
C26_SetPosEveryPeriod ==
  options.bysetpos.some
    => \A i \in 1..Len(gen.out) :
         \E k \in 0..gen.iterations :
           AtPosition(gen.out[i], generateCandidates(Cursor(options, k), options),
                      options.bysetpos.v)

\* C28: a rule with count n >= 1 that has at least n matching dates on or
\* after dtstart yields n dates.  A DAILY rule filtered by bymonth alone,
\* without UNTIL, has matching dates in every year; when its enumeration has
\* ended (and no callback cut it short) it has yielded count dates.
C28_CountEventuallyReached ==
  ( /\ options.freq = DAILY
    /\ PartsSet(options) = {"bymonth"} /\ NonEmpty(options.bymonth)
    /\ options.count.some /\ options.count.v >= 1
    /\ ~options.until.some
    /\ status = "returned" /\ gen.halt # "break" )
    => Len(gen.out) = options.count.v

(***************************************************************************)
(* A rule with its own calendar under every process-wide default: one      *)
(* HijriRRule built with noCache, enumerated, and enumerated again after   *)
(* setCalendarConfig.                                                      *)
(***************************************************************************)
\* the calls made on one object
MaxCalls == 2

Calendars == {"islamic-tbla", "islamic-umalqura"}

VariantRules ==
  { [r EXCEPT !.calendar = calendar] :
      calendar \in Calendars,
      r \in { Rule(YEARLY, HijriDate(1443, 1, 1, 0), 1, Some(2), None, OMIT,
                   [NoBy EXCEPT !.bymonth = Some(<<2>>), !.bynmonthday = Some(<<-1>>)]),
              Rule(MONTHLY, HijriDate(1443, 1, 1, 0), 1, Some(2), None, OMIT, NoBy),
              Rule(MONTHLY, HijriDate(1443, 1, 1, 0), 1, Some(2), None, OMIT,
                   [NoBy EXCEPT !.byweekday = Some(<<6>>), !.bysetpos = Some(<<-1>>)]),
              Rule(WEEKLY, HijriDate(1443, 1, 1, 0), 1, Some(2), None, OMIT, NoBy),
              Rule(MONTHLY, HijriDate(1443, 1, 15, 0), 1, None,
                   Some(HijriDate(1443, 2, 12, 0)), OMIT,
                   [NoBy EXCEPT !.bymonthday = Some(<<1, 20>>)]),
              Rule(MONTHLY, HijriDate(1443, 1, 1, 0), 1, Some(1), None, OMIT,
                   [NoBy EXCEPT !.bymonthday = Some(<<1>>), !.bysetpos = Some(<<>>)]) }
            \cup { Rule(MONTHLY, HijriDate(1443, 1, 1, 0), 1, Some(2), None, skip,
                        [NoBy EXCEPT !.bymonthday = Some(<<30>>)]) : skip \in Skips } }

InitVariant ==
  /\ globalConfig \in Configs
  /\ host \in Hosts
  /\ calc = NoCalc
  /\ options \in VariantRules
  /\ cache = [NewCache EXCEPT !.enabled = FALSE]
  /\ status = "idle"
  /\ call = NoCall
  /\ gen = [NewGenerator(options) EXCEPT !.pc = "done"]
  /\ result = <<>>
  /\ index = 0
  /\ last = None
  /\ cbLog = <<>>
  /\ ret = None
  /\ ruleSet = NewRuleSet
  /\ history = <<>>

\* the call has returned or thrown; the caller sets the process-wide
\* default and is ready to call again
Reconfigure ==
  /\ status = "returned"
  /\ Len(history) < MaxCalls
  /\ \E c \in Configs :
       /\ globalConfig' = c
       /\ status' = "idle"
       /\ UNCHANGED <<host, options, cache, call, gen, result, index, last, cbLog,
                      ret, calc, ruleSet, history>>

NextVariant == Call_allHijri \/ Generate \/ Reconfigure

SpecVariant == InitVariant /\ [][NextVariant]_vars

\* C29: the occurrences of a rule depend on its own calendar only: the
\* enumerations of one rule under any two process-wide default calendars
\* return the same dates, and none of them throws
C29_DefaultCalendarIrrelevant ==
  \A i \in 1..Len(history), j \in 1..Len(history) :
    (/\ ~history[i].call.iterator /\ ~history[j].call.iterator
     /\ history[i].config.useIntl = history[j].config.useIntl)
      => /\ ~history[i].threw /\ ~history[j].threw
         /\ history[i].value = history[j].value

\* C27: an enumeration ends without throwing, after at most 100 * count
\* periods when count is a positive integer and at most 100000 otherwise
C27_EndsQuietly ==
  /\ gen.halt # "threw"
  /\ gen.iterations <= (IF options.count.some /\ options.count.v >= 1
                          THEN 100 * options.count.v ELSE 100000)

(***************************************************************************)
(* One HijriRRule with its cache, called again and again.                  *)
(***************************************************************************)
CacheRules ==
  { Rule(MONTHLY, HijriDate(1446, 1, 1, 0), 1, Some(3), None, OMIT, NoBy),
    Rule(WEEKLY, HijriDate(1446, 1, 1, 12), 1, Some(2), None, OMIT, NoBy),
    Rule(MONTHLY, HijriDate(1446, 1, 15, 0), 1, None, Some(HijriDate(1446, 3, 12, 0)),
         OMIT, [NoBy EXCEPT !.bymonthday = Some(<<1, 20>>)]) }

\* the dates the calls ask about
CacheDates == {HijriDate(1446, 1, 1, 0), HijriDate(1446, 3, 1, 0)}

Asked(c) ==
  /\ c.dt.some => c.dt.v \in CacheDates
  /\ c.after.some => c.after.v \in CacheDates /\ c.before.v \in CacheDates
                     /\ c.after.v # c.before.v

\* the call has returned; the caller is ready to call again
NextCall ==
  /\ status = "returned"
  /\ Len(history) < MaxCalls
  /\ status' = "idle"
  /\ UNCHANGED <<globalConfig, host, options, cache, call, gen, result, index, last,
                 cbLog, ret, calc, ruleSet, history>>

\* the rules of CacheRules end by COUNT or UNTIL, never at the period ceiling
NextCache ==
  \/ Call_allHijri
  \/ Call_betweenHijri /\ Asked(call')
  \/ Call_afterHijri /\ Asked(call')
  \/ Call_beforeHijri /\ Asked(call')
  \/ BeginPeriod
  \/ MainCandidate
  \/ AdvancePeriod
  \/ TailCandidate
  \/ TailReturn
  \/ NextCall

InitCache == InitObject(CacheRules)

SpecCache == InitCache /\ [][NextCache]_vars

\* the index of the first date of the list that satisfies P, or one past the end
FirstAt(dates, P(_)) ==
  IF \E i \in 1..Len(dates) : P(dates[i])
    THEN CHOOSE i \in 1..Len(dates) : P(dates[i]) /\ \A j \in 1..(i - 1) : ~P(dates[j])
    ELSE Len(dates) + 1

\* what call c returns on a new object built from the same options with
\* noCache: its loop run over the dates iterate yields
Fresh(c) ==
  LET dates == Occurrences(options)
  IN  CASE c.op = "allHijri" -> dates
        [] c.op = "betweenHijri" ->
             LET past(d)   == (IF c.inc THEN isAfter(d, c.before.v)
                               ELSE isOnOrAfter(d, c.before.v))
                              /\ (~equals(d, c.before.v) \/ ~c.inc)
                 within(d) == IF c.inc
                                THEN isOnOrAfter(d, c.after.v) /\ isOnOrBefore(d, c.before.v)
                                ELSE isAfter(d, c.after.v) /\ isBefore(d, c.before.v)
             IN  SelectSeq(SubSeq(dates, 1, FirstAt(dates, past) - 1), within)
        [] c.op = "afterHijri" ->
             LET hit(d) == IF c.inc THEN isOnOrAfter(d, c.dt.v) ELSE isAfter(d, c.dt.v)
                 at     == FirstAt(dates, hit)
             IN  IF at <= Len(dates) THEN Some(dates[at]) ELSE None
        [] c.op = "beforeHijri" ->
             LET miss(d) == ~(IF c.inc THEN isOnOrBefore(d, c.dt.v)
                              ELSE isBefore(d, c.dt.v))
                 at      == FirstAt(dates, miss)
             IN  IF at > 1 THEN Some(dates[at - 1]) ELSE None

\* C30: whatever calls came before on the same object, answered from the
\* cache or not, abandoned by their callback or not, a call without callback
\* returns what it returns on a new object without cache
C30_CacheUnobservable ==
  \A i \in 1..Len(history) :
    ~history[i].call.iterator
      => ~history[i].threw /\ history[i].value = Fresh(history[i].call)

\* afterHijri asked twice with the same date and flag, the second time
\* answered from the cache, with a date found
C30_Witness ==
  /\ Len(history) = 2
  /\ history[1].call.op = "afterHijri"
  /\ history[2].call = history[1].call
  /\ MapHas(cache.afterCache, makeKey(call.dt.v, call.inc))
  /\ history[2].value.some

\* a betweenHijri abandoned by its callback, then asked again without one
AbandonedThenAsked ==
  /\ Len(history) = 2
  /\ history[1].call.op = "betweenHijri" /\ history[1].call.iterator
  /\ history[2].call = [history[1].call EXCEPT !.iterator = FALSE]
  /\ Len(history[1].value) < Len(history[2].value)

=============================================================================
